---- MODULE Spec2Model ----
(***************************************************************************)
(* Model of the tensile-test analysis engine, src/gui/results_analyzer.py. *)
(*                                                                         *)
(* Numbers.  The program computes in floating point; the model computes    *)
(* the same expressions in exact rational arithmetic.  A rational is a     *)
(* pair <<n, d>> in lowest terms with d > 0.  ln(x) is kept symbolic as    *)
(* the record [ln |-> x] (ln is injective, ln(1) = 0).                     *)
(***************************************************************************)
EXTENDS Integers, Sequences, FiniteSets, TLC

(***************************************************************************)
(* Rational arithmetic                                                     *)
(***************************************************************************)
Abs(a) == IF a < 0 THEN -a ELSE a

RECURSIVE GCD(_, _)
GCD(a, b) == IF b = 0 THEN a ELSE GCD(b, a % b)

Frac(n, d) ==
    LET g == GCD(Abs(n), Abs(d))
        s == IF d < 0 THEN -1 ELSE 1
    IN  <<(s * n) \div g, (s * d) \div g>>

R(n) == <<n, 1>>
Zero == <<0, 1>>
One == <<1, 1>>

RAdd(x, y) ==
    LET g == GCD(x[2], y[2])
    IN  Frac(x[1] * (y[2] \div g) + y[1] * (x[2] \div g), (x[2] \div g) * y[2])
RNeg(x) == <<-x[1], x[2]>>
RSub(x, y) == RAdd(x, RNeg(y))
RMul(x, y) ==
    LET a == Frac(x[1], y[2])
        b == Frac(y[1], x[2])
    IN  <<a[1] * b[1], a[2] * b[2]>>
RDiv(x, y) == RMul(x, Frac(y[2], y[1]))
RLt(x, y) == x[1] * y[2] < y[1] * x[2]
RLe(x, y) == x[1] * y[2] <= y[1] * x[2]
RGt(x, y) == RLt(y, x)
RGe(x, y) == RLe(y, x)

(***************************************************************************)
(* Array helpers: the numpy calls the analyzer makes                       *)
(***************************************************************************)
RECURSIVE SumSeq(_)
SumSeq(s) == IF s = <<>> THEN Zero ELSE RAdd(Head(s), SumSeq(Tail(s)))

RECURSIVE MaxSeq(_)
MaxSeq(s) ==
    IF Len(s) = 1 THEN s[1]
    ELSE LET m == MaxSeq(Tail(s)) IN IF RLt(s[1], m) THEN m ELSE s[1]

RECURSIVE MinSeq(_)
MinSeq(s) ==
    IF Len(s) = 1 THEN s[1]
    ELSE LET m == MinSeq(Tail(s)) IN IF RLt(m, s[1]) THEN m ELSE s[1]

\* np.argmax: index (1-based here) of the first occurrence of the maximum
ArgMax(s) ==
    LET m == MaxSeq(s)
    IN  CHOOSE i \in 1..Len(s) : s[i] = m /\ \A j \in 1..(i - 1) : s[j] # m

Mean(s) == RDiv(SumSeq(s), R(Len(s)))

\* np.trapz(y, x) = sum(diff(x) * (y[1:] + y[:-1]) / 2)
Trapz(y, x) ==
    SumSeq([i \in 1..(IF Len(x) = 0 THEN 0 ELSE Len(x) - 1) |->
              RDiv(RMul(RSub(x[i + 1], x[i]), RAdd(y[i + 1], y[i])), R(2))])

\* s[-k:]
LastK(s, k) == IF Len(s) <= k THEN s ELSE SubSeq(s, Len(s) - k + 1, Len(s))

\* boolean-mask selection a[mask]
RECURSIVE MaskSelect(_, _)
MaskSelect(a, mask) ==
    IF a = <<>> THEN <<>>
    ELSE IF Head(mask) THEN <<Head(a)>> \o MaskSelect(Tail(a), Tail(mask))
         ELSE MaskSelect(Tail(a), Tail(mask))

CountTrue(mask) == Cardinality({i \in 1..Len(mask) : mask[i]})

LnOf(x) == [ln |-> x]

(***************************************************************************)
(* State of a ResultsAnalyzer and of its caller                            *)
(***************************************************************************)
VARIABLES
    gauge_length,        \* ResultsAnalyzer.gauge_length (mm)
    cross_section_area,  \* ResultsAnalyzer.cross_section_area (mm^2)
    data,                \* list of TestDataPoint
    time_data, force_data, extension_data, displacement_data,
    stress_data, strain_data,   \* the parallel lists
    live,                \* LiveCalculations
    results,             \* value returned by the last calculate_results()
    ret,                 \* value returned by the last helper call
    op,                  \* name of the last operation performed
    pending,             \* samples the producer has not delivered yet
    arg,                 \* arguments of the helper or call under study
    raised,              \* exception that escaped the last call, or None
    config,              \* MainWindow.config, the active TestConfiguration
    dialog,              \* the open ConfigDialog
    gui,                 \* the PyQt MainWindow
    dpg,                 \* the AppState of the DearPyGui application
    serial               \* the SerialHandler, or the mock port or handler

vars == <<gauge_length, cross_section_area, data, time_data, force_data,
          extension_data, displacement_data, stress_data, strain_data,
          live, results, ret, op, pending, arg, raised, config, dialog,
          gui, dpg, serial>>

\* the objects of the applications around the analyzer; each is NoObject
\* where the application is not running or the object does not exist
shell == <<config, dialog, gui, dpg, serial>>

NoObject == [none |-> TRUE]

lists == <<data, time_data, force_data, extension_data, displacement_data,
           stress_data, strain_data>>

\* configuration set in __init__
yield_offset == Frac(2, 1000)
modulus_strain_start == Frac(5, 10000)
modulus_strain_end == Frac(25, 10000)
break_detection_drop == Frac(5, 10)

\* LiveCalculations()
LiveCalculations ==
    [current_stress |-> Zero, current_strain |-> Zero,
     current_true_stress |-> Zero, current_true_strain |-> LnOf(One),
     loading_rate_force |-> Zero, loading_rate_stress |-> Zero,
     strain_rate |-> Zero, displacement_rate |-> Zero,
     energy_absorbed |-> Zero, instantaneous_modulus |-> Zero,
     test_stage |-> "Idle"]

\* MechanicalProperties(); validity_notes is the list of notes that the
\* program joins with "; " (the empty list is the empty string)
MechanicalProperties ==
    [ultimate_tensile_strength |-> Zero, yield_strength_offset |-> Zero,
     yield_strength_upper |-> Zero, yield_strength_lower |-> Zero,
     break_stress |-> Zero,
     youngs_modulus |-> Zero, modulus_chord |-> Zero, modulus_secant |-> Zero,
     strain_at_yield |-> Zero, strain_at_uts |-> Zero, strain_at_break |-> Zero,
     elongation_at_break |-> Zero, uniform_elongation |-> Zero,
     max_force |-> Zero, force_at_yield |-> Zero, force_at_break |-> Zero,
     extension_at_yield |-> Zero, extension_at_uts |-> Zero,
     extension_at_break |-> Zero,
     energy_to_yield |-> Zero, energy_to_uts |-> Zero, energy_to_break |-> Zero,
     true_stress_at_uts |-> Zero, true_strain_at_uts |-> LnOf(One),
     failure_type |-> "Unknown", break_location |-> "Unknown",
     modulus_r_squared |-> Zero, is_valid_test |-> TRUE,
     validity_notes |-> <<>>]

None == "None"

(***************************************************************************)
(* Live path: add_data_point and _update_live_calculations                 *)
(***************************************************************************)
\* DetermineTestStage with the elastic-region check ahead of the break check
DetermineTestStage_ElasticFirst(d, forces, stresses, lv) ==
    IF Len(d) < 5 THEN "Starting"
    ELSE
    LET current == d[Len(d)]
        max_force == MaxSeq(forces)
        max_stress == MaxSeq(stresses)
        recent_stress == LastK(stresses, 20)
        stress_change == RSub(MaxSeq(recent_stress), MinSeq(recent_stress))
    IN  IF RLt(current.strain, Frac(1, 100)) /\ RGt(lv.loading_rate_force, Zero)
        THEN "Elastic Region"
        ELSE IF RLt(current.force, RMul(Frac(1, 2), max_force)) /\ RGt(max_force, R(10))
        THEN "Break Detected"
        ELSE IF /\ Len(stresses) > 20
                /\ RLt(stress_change, RMul(Frac(5, 100), max_stress))
                /\ RGt(current.strain, Frac(5, 1000))
        THEN "Yielding"
        ELSE IF RGt(current.stress, RMul(Frac(8, 10), max_stress))
        THEN "Strain Hardening"
        ELSE "Post-Yield"

\* DetermineTestStage reporting a break below 0.8 of the maximum force
DetermineTestStage_Drop80(d, forces, stresses, lv) ==
    IF Len(d) < 5 THEN "Starting"
    ELSE
    LET current == d[Len(d)]
        max_force == MaxSeq(forces)
        max_stress == MaxSeq(stresses)
        recent_stress == LastK(stresses, 20)
        stress_change == RSub(MaxSeq(recent_stress), MinSeq(recent_stress))
    IN  IF RLt(current.force, RMul(Frac(8, 10), max_force)) /\ RGt(max_force, R(10))
        THEN "Break Detected"
        ELSE IF RLt(current.strain, Frac(1, 100)) /\ RGt(lv.loading_rate_force, Zero)
        THEN "Elastic Region"
        ELSE IF /\ Len(stresses) > 20
                /\ RLt(stress_change, RMul(Frac(5, 100), max_stress))
                /\ RGt(current.strain, Frac(5, 1000))
        THEN "Yielding"
        ELSE IF RGt(current.stress, RMul(Frac(8, 10), max_stress))
        THEN "Strain Hardening"
        ELSE "Post-Yield"

\* _determine_test_stage, given the lists after the append and the live
\* record as updated so far; returns the new test_stage
DetermineTestStage(d, forces, stresses, lv) ==
    IF Len(d) < 5 THEN "Starting"
    ELSE
    LET current == d[Len(d)]
        max_force == MaxSeq(forces)
        max_stress == MaxSeq(stresses)
        recent_stress == LastK(stresses, 20)
        stress_change == RSub(MaxSeq(recent_stress), MinSeq(recent_stress))
    IN  IF RLt(current.force, RMul(Frac(1, 2), max_force)) /\ RGt(max_force, R(10))
        THEN "Break Detected"
        ELSE IF RLt(current.strain, Frac(1, 100)) /\ RGt(lv.loading_rate_force, Zero)
        THEN "Elastic Region"
        ELSE IF /\ Len(stresses) > 20
                /\ RLt(stress_change, RMul(Frac(5, 100), max_stress))
                /\ RGt(current.strain, Frac(5, 1000))
        THEN "Yielding"
        ELSE IF RGt(current.stress, RMul(Frac(8, 10), max_stress))
        THEN "Strain Hardening"
        ELSE "Post-Yield"

\* EnergyIncrement with the force of the current sample in place of the
\* mean of the two forces
EnergyIncrement_NoMean(prev, current) ==
    LET d_ext == RSub(current.extension, prev.extension)
    IN  RDiv(RMul(current.force, d_ext), R(1000))

\* EnergyIncrement with the extension difference taken the other way round
EnergyIncrement_Reversed(prev, current) ==
    LET d_ext == RSub(prev.extension, current.extension)
        avg_force == RDiv(RAdd(current.force, prev.force), R(2))
    IN  RDiv(RMul(avg_force, d_ext), R(1000))

\* increment of live.energy_absorbed for one pair of samples
EnergyIncrement(prev, current) ==
    LET d_ext == RSub(current.extension, prev.extension)
        avg_force == RDiv(RAdd(current.force, prev.force), R(2))
    IN  RDiv(RMul(avg_force, d_ext), R(1000))

\* _update_live_calculations, given the lists after the append
UpdateLiveCalculations(d, forces, stresses, strains, lv) ==
    IF Len(d) < 2 THEN lv
    ELSE
    LET current == d[Len(d)]
        prev == d[Len(d) - 1]
        lv1 == [lv EXCEPT !.current_stress = current.stress,
                          !.current_strain = current.strain]
        lv2 == IF RLt(current.strain, Frac(1, 2))
               THEN [lv1 EXCEPT
                       !.current_true_strain = LnOf(RAdd(One, current.strain)),
                       !.current_true_stress =
                           RMul(current.stress, RAdd(One, current.strain))]
               ELSE lv1
        dt == RSub(current.time, prev.time)
        lv3 == IF RGt(dt, Zero)
               THEN [lv2 EXCEPT
                       !.loading_rate_force =
                           RDiv(RSub(current.force, prev.force), dt),
                       !.loading_rate_stress =
                           RDiv(RSub(current.stress, prev.stress), dt),
                       !.strain_rate =
                           RDiv(RSub(current.strain, prev.strain), dt),
                       !.displacement_rate =
                           RDiv(RSub(current.displacement, prev.displacement), dt)]
               ELSE lv2
        lv4 == [lv3 EXCEPT !.energy_absorbed =
                               RAdd(@, EnergyIncrement(prev, current))]
        recent_stress == LastK(stresses, 10)
        recent_strain == LastK(strains, 10)
        d_strain == RSub(recent_strain[Len(recent_strain)], recent_strain[1])
        lv5 == IF Len(d) >= 10 /\ RGt(d_strain, Frac(1, 1000000))
               THEN [lv4 EXCEPT !.instantaneous_modulus =
                        RDiv(RSub(recent_stress[Len(recent_stress)],
                                  recent_stress[1]), d_strain)]
               ELSE lv4
    IN  [lv5 EXCEPT !.test_stage = DetermineTestStage(d, forces, stresses, lv5)]

\* AddDataPoint storing time and force before the divisions are made
AddDataPoint_StoresFirst(time, force, extension) ==
    LET displacement == extension
        stress == RDiv(force, cross_section_area)
        strain == RDiv(extension, gauge_length)
        point == [time |-> time, force |-> force, extension |-> extension,
                  displacement |-> displacement, stress |-> stress,
                  strain |-> strain]
    IN  /\ time_data' = Append(time_data, time)
        /\ force_data' = Append(force_data, force)
        /\ IF cross_section_area = Zero \/ gauge_length = Zero
           THEN /\ raised' = "ZeroDivisionError"
                /\ UNCHANGED <<data, extension_data, displacement_data,
                               stress_data, strain_data, live>>
           ELSE /\ raised' = None
                /\ data' = Append(data, point)
                /\ extension_data' = Append(extension_data, extension)
                /\ displacement_data' = Append(displacement_data, displacement)
                /\ stress_data' = Append(stress_data, stress)
                /\ strain_data' = Append(strain_data, strain)
                /\ live' = UpdateLiveCalculations(data', force_data',
                                                  stress_data', strain_data',
                                                  live)
        /\ results' = None
        /\ ret' = None
        /\ op' = "add_data_point"
        /\ UNCHANGED <<gauge_length, cross_section_area, shell>>

\* add_data_point(time, force, extension) with displacement left at None
AddDataPoint(time, force, extension) ==
    LET displacement == extension
        stress == RDiv(force, cross_section_area)
        strain == RDiv(extension, gauge_length)
        point == [time |-> time, force |-> force, extension |-> extension,
                  displacement |-> displacement, stress |-> stress,
                  strain |-> strain]
    IN  /\ IF cross_section_area = Zero \/ gauge_length = Zero
           THEN \* the division at line 169 or 170 raises
                /\ raised' = "ZeroDivisionError"
                /\ UNCHANGED <<lists, live>>
           ELSE /\ raised' = None
                /\ data' = Append(data, point)
                /\ time_data' = Append(time_data, time)
                /\ force_data' = Append(force_data, force)
                /\ extension_data' = Append(extension_data, extension)
                /\ displacement_data' = Append(displacement_data, displacement)
                /\ stress_data' = Append(stress_data, stress)
                /\ strain_data' = Append(strain_data, strain)
                /\ live' = UpdateLiveCalculations(data', force_data',
                                                  stress_data', strain_data',
                                                  live)
        /\ results' = None
        /\ ret' = None
        /\ op' = "add_data_point"
        /\ UNCHANGED <<gauge_length, cross_section_area, shell>>

\* clear_data()
ClearData ==
    /\ data' = <<>>
    /\ time_data' = <<>>
    /\ force_data' = <<>>
    /\ extension_data' = <<>>
    /\ displacement_data' = <<>>
    /\ stress_data' = <<>>
    /\ strain_data' = <<>>
    /\ live' = LiveCalculations
    /\ results' = None
    /\ ret' = None
    /\ op' = "clear_data"
    /\ raised' = None
    /\ UNCHANGED <<gauge_length, cross_section_area, pending, arg, shell>>

(***************************************************************************)
(* Batch path: calculate_results and its helpers.  Indices are 1-based     *)
(* here, 0-based in the program.                                           *)
(***************************************************************************)
\* BreakScan comparing with <= in place of <
RECURSIVE BreakScan_Le(_, _, _)
BreakScan_Le(force, i, threshold) ==
    IF i > Len(force) THEN Len(force)
    ELSE IF RLe(force[i], threshold) THEN i
    ELSE BreakScan_Le(force, i + 1, threshold)

\* the loop of _find_break_point from index i on
RECURSIVE BreakScan(_, _, _)
BreakScan(force, i, threshold) ==
    IF i > Len(force) THEN Len(force)
    ELSE IF RLt(force[i], threshold) THEN i
    ELSE BreakScan(force, i + 1, threshold)

\* FindBreakPoint scanning from the first sample in place of the maximum
FindBreakPoint_FromStart(force) ==
    BreakScan(force, 1, RMul(break_detection_drop, MaxSeq(force)))

\* _find_break_point(force)
FindBreakPoint(force) ==
    LET max_force == MaxSeq(force)
        max_idx == ArgMax(force)
    IN  BreakScan(force, max_idx, RMul(break_detection_drop, max_force))

\* the line through the points from their sums: ordinary least squares, or,
\* when all x are equal (den = 0), the minimum-norm solution of the scaled
\* rank-1 system
PolyfitFromSums(x, y, n, sx, sy, sxx, sxy, den) ==
    IF den = Zero
    THEN <<RDiv(Mean(y), RMul(R(2), x[1])), RDiv(Mean(y), R(2))>>
    ELSE <<RDiv(RSub(RMul(n, sxy), RMul(sx, sy)), den),
           RDiv(RSub(RMul(sy, sxx), RMul(sx, sxy)), den)>>

PolyfitSums(x, y, n, sx, sy, sxx, sxy) ==
    PolyfitFromSums(x, y, n, sx, sy, sxx, sxy, RSub(RMul(n, sxx), RMul(sx, sx)))

\* np.polyfit(x, y, 1) = <<slope, intercept>>.  numpy scales the columns of
\* the Vandermonde matrix and solves by lstsq; when all x are equal (rank 1)
\* lstsq returns the minimum-norm solution and polyfit only warns.
Polyfit(x, y) ==
    PolyfitSums(x, y, R(Len(x)), SumSeq(x), SumSeq(y),
                SumSeq([i \in 1..Len(x) |-> RMul(x[i], x[i])]),
                SumSeq([i \in 1..Len(x) |-> RMul(x[i], y[i])]))

\* np.polyval(coeffs, x)
Polyval(coeffs, x) ==
    [i \in 1..Len(x) |-> RAdd(RMul(coeffs[1], x[i]), coeffs[2])]

SumSq(a, b) ==
    SumSeq([i \in 1..Len(a) |-> RMul(RSub(a[i], b[i]), RSub(a[i], b[i]))])

\* (strain >= lo) & (strain <= hi)
WindowMask(strain, lo, hi) ==
    [i \in 1..Len(strain) |-> RGe(strain[i], lo) /\ RLe(strain[i], hi)]

\* the mask _calculate_youngs_modulus settles on: the configured window,
\* or the wider one when the configured window holds fewer than 5 samples
ModulusMask(strain) ==
    LET mask == WindowMask(strain, modulus_strain_start, modulus_strain_end)
    IN  IF CountTrue(mask) < 5
        THEN WindowMask(strain, Frac(1, 10000), Frac(1, 100))
        ELSE mask

\* r_squared = 1 - (ss_res / ss_tot) if ss_tot > 0 else 0
RSquared(ss_res, ss_tot) ==
    IF RGt(ss_tot, Zero) THEN RSub(One, RDiv(ss_res, ss_tot)) ELSE Zero

ConstSeq(n, v) == [i \in 1..n |-> v]

\* modulus and R2 from the fitted coefficients
FitQuality(stress_linear, strain_linear, coeffs) ==
    <<coeffs[1],
      RSquared(SumSq(stress_linear, Polyval(coeffs, strain_linear)),
               SumSq(stress_linear,
                     ConstSeq(Len(stress_linear), Mean(stress_linear))))>>

\* the regression of _calculate_youngs_modulus over the selected samples
ModulusFit(stress_linear, strain_linear) ==
    FitQuality(stress_linear, strain_linear,
               Polyfit(strain_linear, stress_linear))

\* CalculateYoungsModulus settling for 3 samples in the window
CalculateYoungsModulus_Min3(stress, strain) ==
    IF CountTrue(ModulusMask(strain)) < 3 THEN <<Zero, Zero>>
    ELSE ModulusFit(MaskSelect(stress, ModulusMask(strain)),
                    MaskSelect(strain, ModulusMask(strain)))

\* _calculate_youngs_modulus(stress, strain) = <<modulus, r_squared>>
CalculateYoungsModulus(stress, strain) ==
    IF CountTrue(ModulusMask(strain)) < 5 THEN <<Zero, Zero>>
    ELSE ModulusFit(MaskSelect(stress, ModulusMask(strain)),
                    MaskSelect(strain, ModulusMask(strain)))

\* YieldScan taking only a strictly negative difference as a crossing
RECURSIVE YieldScan_Strict(_, _, _, _, _, _)
YieldScan_Strict(diff, stress, strain, force, extension, i) ==
    IF i > Len(diff) THEN <<Zero, Zero, Zero, Zero>>
    ELSE IF RGt(diff[i - 1], Zero) /\ RLt(diff[i], Zero)
    THEN LET t == RDiv(diff[i - 1], RSub(diff[i - 1], diff[i]))
             Interp(a) == RAdd(a[i - 1], RMul(t, RSub(a[i], a[i - 1])))
         IN  <<Interp(stress), Interp(strain), Interp(force), Interp(extension)>>
    ELSE YieldScan_Strict(diff, stress, strain, force, extension, i + 1)

\* the loop of _calculate_yield_strength from index i on
RECURSIVE YieldScan(_, _, _, _, _, _)
YieldScan(diff, stress, strain, force, extension, i) ==
    IF i > Len(diff) THEN <<Zero, Zero, Zero, Zero>>
    ELSE IF RGt(diff[i - 1], Zero) /\ RLe(diff[i], Zero)
    THEN LET t == RDiv(diff[i - 1], RSub(diff[i - 1], diff[i]))
             Interp(a) == RAdd(a[i - 1], RMul(t, RSub(a[i], a[i - 1])))
         IN  <<Interp(stress), Interp(strain), Interp(force), Interp(extension)>>
    ELSE YieldScan(diff, stress, strain, force, extension, i + 1)

\* CalculateYieldStrength with the offset line shifted the wrong way,
\* E * (strain + 0.002)
CalculateYieldStrength_PlusOffset(stress, strain, force, extension, modulus) ==
    IF RLe(modulus, Zero) THEN <<Zero, Zero, Zero, Zero>>
    ELSE
    LET offset_line == [i \in 1..Len(strain) |->
                          RMul(modulus, RAdd(strain[i], yield_offset))]
        diff == [i \in 1..Len(strain) |-> RSub(stress[i], offset_line[i])]
    IN  YieldScan(diff, stress, strain, force, extension, 2)

\* _calculate_yield_strength(...) =
\*     <<yield_stress, yield_strain, yield_force, yield_ext>>
CalculateYieldStrength(stress, strain, force, extension, modulus) ==
    IF RLe(modulus, Zero) THEN <<Zero, Zero, Zero, Zero>>
    ELSE
    LET offset_line == [i \in 1..Len(strain) |->
                          RMul(modulus, RSub(strain[i], yield_offset))]
        diff == [i \in 1..Len(strain) |-> RSub(stress[i], offset_line[i])]
    IN  YieldScan(diff, stress, strain, force, extension, 2)

\* np.searchsorted(a, v): numpy's left binary search, whatever the order of
\* a; lo and hi are 0-based, the result is the number of elements before v
RECURSIVE BinSearch(_, _, _, _)
BinSearch(a, v, lo, hi) ==
    IF lo >= hi THEN lo
    ELSE LET mid == lo + ((hi - lo) \div 2)
         IN  IF RLt(a[mid + 1], v) THEN BinSearch(a, v, mid + 1, hi)
             ELSE BinSearch(a, v, lo, mid)

SearchSorted(a, v) == BinSearch(a, v, 0, Len(a))

\* DetermineFailureType testing Ductile before Necking
DetermineFailureType_DuctileFirst(stress, strain, uts_idx, break_idx) ==
    LET strain_at_break == strain[break_idx]
        post_uts_strain == RSub(strain[break_idx], strain[uts_idx])
    IN  IF RLt(strain_at_break, Frac(2, 100)) THEN "Brittle"
        ELSE IF RGt(strain_at_break, Frac(5, 100)) THEN "Ductile"
        ELSE IF RGt(post_uts_strain, Frac(5, 100)) THEN "Necking/Ductile"
        ELSE "Unknown"

\* DetermineFailureType answering "No Break" when the break index is the
\* last sample
DetermineFailureType_NoBreak(stress, strain, uts_idx, break_idx) ==
    LET strain_at_break == strain[break_idx]
        post_uts_strain == RSub(strain[break_idx], strain[uts_idx])
    IN  IF break_idx = Len(strain) THEN "No Break"
        ELSE IF RLt(strain_at_break, Frac(2, 100)) THEN "Brittle"
        ELSE IF RGt(post_uts_strain, Frac(5, 100)) THEN "Necking/Ductile"
        ELSE IF RGt(strain_at_break, Frac(5, 100)) THEN "Ductile"
        ELSE "Unknown"

\* _determine_failure_type(stress, strain, uts_idx, break_idx)
DetermineFailureType(stress, strain, uts_idx, break_idx) ==
    LET strain_at_break == strain[break_idx]
        post_uts_strain == RSub(strain[break_idx], strain[uts_idx])
    IN  IF RLt(strain_at_break, Frac(2, 100)) THEN "Brittle"
        ELSE IF RGt(post_uts_strain, Frac(5, 100)) THEN "Necking/Ductile"
        ELSE IF RGt(strain_at_break, Frac(5, 100)) THEN "Ductile"
        ELSE "Unknown"

\* a validity note; value is the number formatted into the text, if any
Note(text, value) == [text |-> text, value |-> value]

\* the ".3f" formatting of the R2 note: thousandths, rounded to nearest
Round3(r) == (2000 * r[1] + r[2]) \div (2 * r[2])

\* ValidateTest that also marks the test invalid when no yield strength
\* was found
ValidateTest_YieldInvalid(res) ==
    LET n1 == IF RLt(res.modulus_r_squared, Frac(99, 100))
              THEN <<Note("Modulus fit R2 (ideal > 0.99)",
                          Round3(res.modulus_r_squared))>>
              ELSE <<>>
        n2 == IF RLe(res.youngs_modulus, Zero)
              THEN <<Note("Could not determine Young's modulus", 0)>> ELSE <<>>
        n3 == IF RLe(res.yield_strength_offset, Zero)
              THEN <<Note("Could not determine yield strength", 0)>> ELSE <<>>
        n4 == IF RLt(res.ultimate_tensile_strength, res.yield_strength_offset)
              THEN <<Note("UTS less than yield strength (unusual)", 0)>> ELSE <<>>
        n5 == IF RLe(res.elongation_at_break, Zero)
              THEN <<Note("No elongation at break recorded", 0)>> ELSE <<>>
        notes == n1 \o n2 \o n3 \o n4 \o n5
    IN  [res EXCEPT
           !.is_valid_test = IF \/ RLe(res.youngs_modulus, Zero)
                                \/ RLe(res.yield_strength_offset, Zero)
                             THEN FALSE ELSE @,
           !.validity_notes = IF notes # <<>> THEN notes
                              ELSE <<Note("Test valid", 0)>>]

\* _validate_test(results): the updated results
ValidateTest(res) ==
    LET n1 == IF RLt(res.modulus_r_squared, Frac(99, 100))
              THEN <<Note("Modulus fit R2 (ideal > 0.99)",
                          Round3(res.modulus_r_squared))>>
              ELSE <<>>
        n2 == IF RLe(res.youngs_modulus, Zero)
              THEN <<Note("Could not determine Young's modulus", 0)>> ELSE <<>>
        n3 == IF RLe(res.yield_strength_offset, Zero)
              THEN <<Note("Could not determine yield strength", 0)>> ELSE <<>>
        n4 == IF RLt(res.ultimate_tensile_strength, res.yield_strength_offset)
              THEN <<Note("UTS less than yield strength (unusual)", 0)>> ELSE <<>>
        n5 == IF RLe(res.elongation_at_break, Zero)
              THEN <<Note("No elongation at break recorded", 0)>> ELSE <<>>
        notes == n1 \o n2 \o n3 \o n4 \o n5
    IN  [res EXCEPT
           !.is_valid_test = IF RLe(res.youngs_modulus, Zero) THEN FALSE ELSE @,
           !.validity_notes = IF notes # <<>> THEN notes
                              ELSE <<Note("Test valid", 0)>>]

\* results.energy_to_yield
EnergyToYield(force, extension, yield_strain, yield_idx) ==
    IF RGt(yield_strain, Zero) /\ yield_idx > 0
    THEN RDiv(Trapz(SubSeq(force, 1, yield_idx),
                    SubSeq(extension, 1, yield_idx)), R(1000))
    ELSE Zero

\* calculate_results() once the indices, the modulus fit mr and the yield
\* point y are known
ResultsFrom(force, extension, stress, strain, uts_idx, break_idx, mr, y) ==
    ValidateTest(
        [MechanicalProperties EXCEPT
            !.max_force = MaxSeq(force),
            !.ultimate_tensile_strength = stress[uts_idx],
            !.strain_at_uts = strain[uts_idx],
            !.extension_at_uts = extension[uts_idx],
            !.force_at_break = force[break_idx],
            !.break_stress = stress[break_idx],
            !.strain_at_break = strain[break_idx],
            !.extension_at_break = extension[break_idx],
            !.elongation_at_break = RMul(strain[break_idx], R(100)),
            !.uniform_elongation = RMul(strain[uts_idx], R(100)),
            !.youngs_modulus = mr[1],
            !.modulus_r_squared = mr[2],
            !.yield_strength_offset = y[1],
            !.strain_at_yield = y[2],
            !.force_at_yield = y[3],
            !.extension_at_yield = y[4],
            !.energy_to_break = RDiv(Trapz(force, extension), R(1000)),
            !.energy_to_yield =
                EnergyToYield(force, extension, y[2], SearchSorted(strain, y[2])),
            !.energy_to_uts = RDiv(Trapz(SubSeq(force, 1, uts_idx),
                                         SubSeq(extension, 1, uts_idx)), R(1000)),
            !.true_strain_at_uts = LnOf(RAdd(One, strain[uts_idx])),
            !.true_stress_at_uts = RMul(stress[uts_idx], RAdd(One, strain[uts_idx])),
            !.failure_type =
                DetermineFailureType(stress, strain, uts_idx, break_idx)])

\* calculate_results() once the indices and the modulus fit mr are known
ResultsFromFit(force, extension, stress, strain, uts_idx, break_idx, mr) ==
    ResultsFrom(force, extension, stress, strain, uts_idx, break_idx, mr,
                CalculateYieldStrength(stress, strain, force, extension, mr[1]))

\* FullResults reading the ultimate tensile strength at the break index
FullResults_UtsAtBreak(force, extension, stress, strain) ==
    ResultsFromFit(force, extension, stress, strain, FindBreakPoint(force),
                   FindBreakPoint(force), CalculateYoungsModulus(stress, strain))

\* calculate_results() past the length check
FullResults(force, extension, stress, strain) ==
    ResultsFromFit(force, extension, stress, strain, ArgMax(stress),
                   FindBreakPoint(force), CalculateYoungsModulus(stress, strain))

\* the early return of calculate_results()
InsufficientData ==
    [MechanicalProperties EXCEPT
       !.is_valid_test = FALSE,
       !.validity_notes = <<Note("Insufficient data points", 0)>>]

\* CalcResults asking for 5 samples in place of 10
CalcResults_Min5(d, force, extension, stress, strain) ==
    IF Len(d) < 5 THEN InsufficientData
    ELSE FullResults(force, extension, stress, strain)

\* the value calculate_results() returns for the given lists
CalcResults(d, force, extension, stress, strain) ==
    IF Len(d) < 10 THEN InsufficientData
    ELSE FullResults(force, extension, stress, strain)

\* CalculateResults that resets the live values on the way
CalculateResults_ResetsLive ==
    /\ results' = CalcResults(data, force_data, extension_data, stress_data,
                              strain_data)
    /\ live' = LiveCalculations
    /\ ret' = None
    /\ op' = "calculate_results"
    /\ raised' = None
    /\ UNCHANGED <<gauge_length, cross_section_area, lists, pending, arg, shell>>

\* calculate_results()
CalculateResults ==
    /\ results' = CalcResults(data, force_data, extension_data, stress_data,
                              strain_data)
    /\ ret' = None
    /\ op' = "calculate_results"
    /\ raised' = None
    /\ UNCHANGED <<gauge_length, cross_section_area, lists, live, pending, arg,
                   shell>>

(***************************************************************************)
(* Spec: one analyzer with the default specimen geometry, driven by        *)
(* add_data_point, calculate_results and clear_data                        *)
(***************************************************************************)
MaxSamples == 10

\* what the producer can deliver: a force (N) with a change of extension
\* (mm) and of time (s) since the previous sample.  0.025 mm is a strain of
\* 0.0005 at the default gauge length.
Samples ==
    {[force |-> R(100), d_ext |-> Frac(1, 40), dt |-> One],
     [force |-> R(40), d_ext |-> Frac(-1, 40), dt |-> One]}

LastOr(s, dflt) == IF s = <<>> THEN dflt ELSE s[Len(s)]

\* the state after ResultsAnalyzer(50.0, 40.0), the defaults of
\* SpecimenGeometry in config_model.py, with no application around it
Fresh ==
    /\ gauge_length = R(50)
    /\ cross_section_area = R(40)
    /\ data = <<>>
    /\ time_data = <<>>
    /\ force_data = <<>>
    /\ extension_data = <<>>
    /\ displacement_data = <<>>
    /\ stress_data = <<>>
    /\ strain_data = <<>>
    /\ live = LiveCalculations
    /\ results = None
    /\ ret = None
    /\ op = "init"
    /\ raised = None

\* no application around the analyzer
NoShell ==
    /\ config = NoObject
    /\ dialog = NoObject
    /\ gui = NoObject
    /\ dpg = NoObject
    /\ serial = NoObject

Init == Fresh /\ NoShell /\ pending = <<>> /\ arg = None

Add ==
    /\ Len(data) < MaxSamples
    /\ \E s \in Samples :
          AddDataPoint(RAdd(LastOr(time_data, Zero), s.dt), s.force,
                       RAdd(LastOr(extension_data, Zero), s.d_ext))
    /\ UNCHANGED <<pending, arg>>

Next == Add \/ CalculateResults \/ ClearData

Spec == Init /\ [][Next]_vars

(***************************************************************************)
(* Properties of the analyzer under Spec                                   *)
(***************************************************************************)
Calculated == op = "calculate_results"

NumericFields ==
    {"ultimate_tensile_strength", "yield_strength_offset",
     "yield_strength_upper", "yield_strength_lower", "break_stress",
     "youngs_modulus", "modulus_chord", "modulus_secant",
     "strain_at_yield", "strain_at_uts", "strain_at_break",
     "elongation_at_break", "uniform_elongation",
     "max_force", "force_at_yield", "force_at_break",
     "extension_at_yield", "extension_at_uts", "extension_at_break",
     "energy_to_yield", "energy_to_uts", "energy_to_break",
     "true_stress_at_uts", "modulus_r_squared"}

HasNote(res, text) ==
    \E i \in 1..Len(res.validity_notes) : res.validity_notes[i].text = text

\* C1: with at least 10 samples fed through add_data_point, the energy
\* accumulated live equals the energy_to_break calculate_results() returns.
C1_LiveBatchEnergy ==
    (Calculated /\ Len(data) >= 10) =>
        results.energy_to_break = live.energy_absorbed

\* a result for 10 samples whose extension went back and forth under both
\* force levels, with a non-zero energy
C1_Witness ==
    /\ Calculated /\ Len(data) >= 10
    /\ results.energy_to_break # Zero
    /\ \E i \in 2..Len(data) : RLt(extension_data[i], extension_data[i - 1])
    /\ \E i \in 2..Len(data) : RGt(extension_data[i], extension_data[i - 1])
    /\ \E i \in 2..Len(data) : force_data[i] # force_data[i - 1]

\* C2: with fewer than 10 samples calculate_results() returns an invalid
\* result carrying the insufficient-data note, every numeric field at its
\* zero default and failure type Unknown.
C2_InsufficientData ==
    (Calculated /\ Len(data) < 10) =>
        /\ results.is_valid_test = FALSE
        /\ results.validity_notes = <<Note("Insufficient data points", 0)>>
        /\ \A f \in NumericFields : results[f] = Zero
        /\ results.true_strain_at_uts = LnOf(One)
        /\ results.failure_type = "Unknown"
        /\ results.break_location = "Unknown"

\* a result for 9 samples with a non-zero force and extension on record
C2_Witness ==
    /\ Calculated /\ Len(data) = 9
    /\ MaxSeq(force_data) = R(100)
    /\ extension_data[9] # Zero
    /\ results.is_valid_test = FALSE

C8_TooFewModulusPoints ==
    (/\ Calculated /\ Len(data) >= 10
     /\ CountTrue(WindowMask(strain_data, Frac(5, 10000), Frac(25, 10000))) < 5
     /\ CountTrue(WindowMask(strain_data, Frac(1, 10000), Frac(1, 100))) < 5) =>
        /\ results.youngs_modulus = Zero
        /\ results.modulus_r_squared = Zero
        /\ results.yield_strength_offset = Zero
        /\ results.strain_at_yield = Zero
        /\ results.force_at_yield = Zero
        /\ results.extension_at_yield = Zero
        /\ results.energy_to_yield = Zero
        /\ results.is_valid_test = FALSE
        /\ HasNote(results, "Could not determine Young's modulus")

\* a result for 10 samples of which 3 or 4 lie in the wider window
C8_Witness ==
    /\ Calculated /\ Len(data) >= 10
    /\ CountTrue(WindowMask(strain_data, Frac(1, 10000), Frac(1, 100))) \in {3, 4}
    /\ results.youngs_modulus = Zero
    /\ results.is_valid_test = FALSE

\* C9: when the window the modulus fit settles on holds at least 5 samples
\* that all have the same strain, modulus and R2 are 0 and so are the yield
\* values.
C9_ZeroVarianceWindow ==
    LET w == MaskSelect(strain_data, ModulusMask(strain_data))
    IN  (/\ Calculated /\ Len(data) >= 10
         /\ Len(w) >= 5
         /\ \A i \in 1..Len(w) : w[i] = w[1]) =>
            /\ results.youngs_modulus = Zero
            /\ results.modulus_r_squared = Zero
            /\ results.yield_strength_offset = Zero
            /\ results.strain_at_yield = Zero

(***************************************************************************)
(* Helper specifications.  Each applies one helper of calculate_results to *)
(* arguments drawn from a bounded set; arg holds the arguments, ret the    *)
(* value returned.                                                         *)
(***************************************************************************)
Arrays(levels, lo, hi) == UNION {[1..n -> levels] : n \in lo..hi}

Helper(name, value) ==
    /\ op = "init"
    /\ op' = name
    /\ ret' = value
    /\ UNCHANGED <<gauge_length, cross_section_area, lists, live, results,
                   pending, arg, raised, shell>>

(***************************************************************************)
(* SpecBreak: _find_break_point on force arrays                            *)
(***************************************************************************)
MaxForceLen == 4

ForceLevels == {R(-20), R(0), R(40), R(50), R(100)}

InitBreak ==
    Fresh /\ NoShell /\ pending = <<>> /\ arg \in Arrays(ForceLevels, 1, MaxForceLen)

CallFindBreakPoint == Helper("_find_break_point", FindBreakPoint(arg))

NextBreak == CallFindBreakPoint

SpecBreak == InitBreak /\ [][NextBreak]_vars

BreakFound == op = "_find_break_point"

\* the index of the first maximum of s
FirstMaxIndex(s) ==
    CHOOSE i \in 1..Len(s) :
        /\ \A j \in 1..Len(s) : RLe(s[j], s[i])
        /\ \A j \in 1..(i - 1) : RLt(s[j], s[i])

\* the indices at or after the first maximum where the force is below
\* break_detection_drop times the maximum
DropIndices(force) ==
    {i \in FirstMaxIndex(force)..Len(force) :
        RLt(force[i], RMul(Frac(1, 2), force[FirstMaxIndex(force)]))}

\* C3: the index _find_break_point returns is a valid index of the array
\* and is not before the index of the first maximum force.
C3_BreakNotBeforeMax ==
    BreakFound => (ret \in 1..Len(arg) /\ ret >= FirstMaxIndex(arg))

\* a break found strictly after a maximum that is not the first sample,
\* with a sample below the threshold before the maximum
C3_Witness ==
    /\ BreakFound
    /\ FirstMaxIndex(arg) > 1
    /\ ret > FirstMaxIndex(arg)
    /\ RLt(arg[1], RMul(Frac(1, 2), arg[FirstMaxIndex(arg)]))

\* C4: _find_break_point returns the smallest index at or after the
\* max-force index whose force is below half the maximum, and the last
\* index if there is none; for a rise to 100 N followed by a flat 40 N it
\* is the first sample below 50 N after the peak.
C4_FirstDropOrLast ==
    BreakFound =>
        IF DropIndices(arg) = {} THEN ret = Len(arg)
        ELSE ret \in DropIndices(arg) /\ \A i \in DropIndices(arg) : ret <= i

\* the curve 50, 100, 40, 40 N breaks at its third sample
C4_Witness ==
    /\ BreakFound
    /\ arg = <<R(50), R(100), R(40), R(40)>>
    /\ ret = 3

(***************************************************************************)
(* SpecFailure: _determine_failure_type on strain arrays                   *)
(***************************************************************************)
MaxCurveLen == 2

\* strains around the thresholds 0.02 and 0.05
StrainLevels ==
    {Frac(1, 100), Frac(2, 100), Frac(3, 100), Frac(5, 100), Frac(6, 100),
     Frac(7, 100), Frac(8, 100), Frac(11, 100)}

InitFailure ==
    /\ Fresh /\ NoShell /\ pending = <<>>
    /\ \E strain \in Arrays(StrainLevels, 2, MaxCurveLen) :
       \E u \in 1..Len(strain), b \in 1..Len(strain) :
          arg = [strain |-> strain, uts_idx |-> u, break_idx |-> b]

\* the stress array is not read by _determine_failure_type
CallDetermineFailureType ==
    Helper("_determine_failure_type",
           DetermineFailureType(<<>>, arg.strain, arg.uts_idx, arg.break_idx))

NextFailure == CallDetermineFailureType

SpecFailure == InitFailure /\ [][NextFailure]_vars

Classified == op = "_determine_failure_type"

StrainAtBreak == arg.strain[arg.break_idx]
PostUtsStrain == RSub(arg.strain[arg.break_idx], arg.strain[arg.uts_idx])

\* C10: Brittle below 0.02 strain at break; otherwise Necking when the
\* strain after UTS exceeds 0.05; otherwise Ductile when the strain at
\* break exceeds 0.05; otherwise Unknown.
C10_FailureRuleOrder ==
    Classified =>
        /\ (ret = "Brittle") <=> RLt(StrainAtBreak, Frac(2, 100))
        /\ (ret = "Necking/Ductile") <=>
              (RGe(StrainAtBreak, Frac(2, 100)) /\ RGt(PostUtsStrain, Frac(5, 100)))
        /\ (ret = "Ductile") <=>
              (/\ RGt(StrainAtBreak, Frac(5, 100))
               /\ RLe(PostUtsStrain, Frac(5, 100)))
        /\ (ret = "Unknown") <=>
              (/\ RGe(StrainAtBreak, Frac(2, 100))
               /\ RLe(StrainAtBreak, Frac(5, 100))
               /\ RLe(PostUtsStrain, Frac(5, 100)))
        /\ ret \in {"Brittle", "Necking/Ductile", "Ductile", "Unknown"}

\* a break beyond 0.05 strain, more than 0.05 after UTS, is Necking
C10_Witness ==
    /\ Classified
    /\ RGt(StrainAtBreak, Frac(5, 100))
    /\ RGt(PostUtsStrain, Frac(5, 100))
    /\ ret = "Necking/Ductile"

(***************************************************************************)
(* SpecYield: _calculate_yield_strength on short curves.  Force and        *)
(* extension are the stress and strain scaled by the default geometry.     *)
(***************************************************************************)
MaxYieldLen == 4

\* stresses (MPa) and strains on either side of the offset lines below
YieldStressLevels == {R(0), R(2), R(3)}
YieldStrainLevels == {Zero, Frac(4, 1000), Frac(6, 1000)}
\* moduli (MPa): negative, zero and positive
ModulusLevels == {R(-1000), Zero, R(1000)}

InitYield ==
    /\ Fresh /\ NoShell /\ pending = <<>>
    /\ \E n \in 2..MaxYieldLen :
       \E stress \in [1..n -> YieldStressLevels],
          strain \in [1..n -> YieldStrainLevels],
          modulus \in ModulusLevels :
          arg = [stress |-> stress, strain |-> strain,
                 force |-> [i \in 1..n |-> RMul(stress[i], R(40))],
                 extension |-> [i \in 1..n |-> RMul(strain[i], R(50))],
                 modulus |-> modulus]

CallCalculateYieldStrength ==
    Helper("_calculate_yield_strength",
           CalculateYieldStrength(arg.stress, arg.strain, arg.force,
                                  arg.extension, arg.modulus))

NextYield == CallCalculateYieldStrength

SpecYield == InitYield /\ [][NextYield]_vars

YieldSearched == op = "_calculate_yield_strength"

\* stress minus the 0.2 % offset line at sample i
OffsetDiff(i) ==
    RSub(arg.stress[i],
         RMul(arg.modulus, RSub(arg.strain[i], Frac(2, 1000))))

\* the indices where the curve goes from above the offset line to on or
\* below it
Crossings ==
    {i \in 2..Len(arg.stress) :
        RGt(OffsetDiff(i - 1), Zero) /\ RLe(OffsetDiff(i), Zero)}

\* the point of array a on the chord from sample i-1 to sample i where the
\* chord of the curve meets the offset line
Lerp(a, i) ==
    RAdd(a[i - 1],
         RMul(RDiv(OffsetDiff(i - 1), RSub(OffsetDiff(i - 1), OffsetDiff(i))),
              RSub(a[i], a[i - 1])))

PlateauTail == 5

\* sampled strains, in units of 0.0001: five inside the modulus window ...
WindowStrains == {5, 10, 15, 20, 25}
\* ... and PlateauTail of these
TailStrains == {50, 60, 80, 100, 110, 120, 150, 200, 1000, 1200, 1500, 2000}

PlateauStress == R(200)

\* the sample of the specimen at strain k * 0.0001, taken at time t
PlateauSample(k, t) ==
    LET strain == Frac(k, 10000)
        stress == IF k <= 100 THEN RMul(R(20000), strain) ELSE PlateauStress
    IN  [time |-> R(t), force |-> RMul(stress, R(40)),
         extension |-> RMul(strain, R(50))]

RECURSIVE Ascending(_)
Ascending(S) ==
    IF S = {} THEN <<>>
    ELSE LET m == CHOOSE x \in S : \A y \in S : x <= y
         IN  <<m>> \o Ascending(S \ {m})

PlateauCurve(S) ==
    LET ks == Ascending(S) IN [i \in 1..Len(ks) |-> PlateauSample(ks[i], i)]

InitPlateau ==
    /\ Fresh /\ NoShell /\ arg = None
    /\ \E T \in SUBSET TailStrains :
          /\ Cardinality(T) = PlateauTail
          /\ pending = PlateauCurve(WindowStrains \cup T)

\* the producer delivers its next sample
Deliver ==
    /\ pending # <<>>
    /\ AddDataPoint(Head(pending).time, Head(pending).force,
                    Head(pending).extension)
    /\ pending' = Tail(pending)
    /\ UNCHANGED arg

NextPlateau == Deliver \/ CalculateResults

SpecPlateau == InitPlateau /\ [][NextPlateau]_vars

CurveAnalysed == Calculated /\ pending = <<>> /\ Len(data) >= 10

\* the first sample at or beyond strain 0.012, where the offset line meets
\* the plateau, follows a sample at or beyond strain 0.01
Bracketed ==
    \E i \in 2..Len(strain_data) :
        /\ RGe(strain_data[i], Frac(12, 1000))
        /\ RLt(strain_data[i - 1], Frac(12, 1000))
        /\ RGe(strain_data[i - 1], Frac(1, 100))

RSquaredLevels == {Zero, Frac(98, 100), Frac(99, 100), One}
ModulusValues == {R(-1000), Zero, R(1000)}
YieldValues == {R(-1), Zero, R(200)}
UtsValues == {R(100), R(200), R(300)}
ElongationValues == {R(-1), Zero, R(5)}

InitValidate ==
    /\ Fresh /\ NoShell
    /\ pending = <<>>
    /\ \E r2 \in RSquaredLevels, e \in ModulusValues, y \in YieldValues,
          u \in UtsValues, a \in ElongationValues :
          arg = [MechanicalProperties EXCEPT
                    !.modulus_r_squared = r2,
                    !.youngs_modulus = e,
                    !.yield_strength_offset = y,
                    !.ultimate_tensile_strength = u,
                    !.elongation_at_break = a]

CallValidateTest == Helper("_validate_test", ValidateTest(arg))

NextValidate == CallValidateTest

SpecValidate == InitValidate /\ [][NextValidate]_vars

Validated == op = "_validate_test"

\* the five checks of the validation in program order: does the condition
\* hold for the result passed in, and the text of its note
ValidityChecks ==
    <<[holds |-> RLt(arg.modulus_r_squared, Frac(99, 100)),
       text |-> "Modulus fit R2 (ideal > 0.99)"],
      [holds |-> RLe(arg.youngs_modulus, Zero),
       text |-> "Could not determine Young's modulus"],
      [holds |-> RLe(arg.yield_strength_offset, Zero),
       text |-> "Could not determine yield strength"],
      [holds |-> RLt(arg.ultimate_tensile_strength, arg.yield_strength_offset),
       text |-> "UTS less than yield strength (unusual)"],
      [holds |-> RLe(arg.elongation_at_break, Zero),
       text |-> "No elongation at break recorded"]>>

CheckHolds(c) == c.holds

NoteTexts(notes) == [i \in 1..Len(notes) |-> notes[i].text]

\* C11: the notes are exactly "Test valid" if and only if none of the five
\* conditions holds, otherwise the notes of the conditions that hold, in
\* order; is_valid_test is false only for a non-positive modulus, the other
\* four conditions leave it true.
C11_ValidationGate ==
    Validated =>
        LET failed == SelectSeq(ValidityChecks, CheckHolds)
        IN  /\ (ret.validity_notes = <<Note("Test valid", 0)>>) <=> (failed = <<>>)
            /\ failed # <<>> =>
                  NoteTexts(ret.validity_notes) =
                      [i \in 1..Len(failed) |-> failed[i].text]
            /\ ret.is_valid_test = ~RLe(arg.youngs_modulus, Zero)

\* a result with a poor fit, no yield strength and no elongation, but a
\* positive modulus: three notes, and still marked valid
C11_Witness ==
    /\ Validated
    /\ NoteTexts(ret.validity_notes) =
          <<"Modulus fit R2 (ideal > 0.99)",
            "Could not determine yield strength",
            "No elongation at break recorded">>
    /\ ret.is_valid_test = TRUE

(***************************************************************************)
(* SpecStage: the live path on curves that rise to a peak force in two     *)
(* samples and then stay on a tail of lower force at one strain.  The      *)
(* curves put the current force, the peak, the strain, the loading rate    *)
(* and the length on both sides of the thresholds of _determine_test_stage *)
(***************************************************************************)
StageTail == 20

PeakForces == {8, 10, 100}          \* N
TailPercents == {40, 50, 60, 90}    \* force of the last sample, % of the peak
TailSteps == {-1, 0, 1}             \* last force minus the tail force (N)
TailStrainsPermille == {4, 8, 600}  \* strain of the tail, in 0.001
TailLengths == {3, StageTail}

StageSample(t, force, permille) ==
    [time |-> R(t), force |-> force,
     extension |-> RMul(Frac(permille, 1000), R(50))]

StageCurve(peak, pct, step, permille, n) ==
    LET last == Frac(peak * pct, 100)
    IN  <<StageSample(1, Frac(peak, 2), 1), StageSample(2, R(peak), 2)>> \o
        [i \in 1..n |->
            StageSample(i + 2,
                        IF i = n THEN last ELSE RSub(last, R(step)),
                        permille)]

InitStage ==
    /\ Fresh /\ NoShell /\ arg = None
    /\ \E peak \in PeakForces, pct \in TailPercents, step \in TailSteps,
          permille \in TailStrainsPermille, n \in TailLengths :
          pending = StageCurve(peak, pct, step, permille, n)

NextStage == Deliver

SpecStage == InitStage /\ [][NextStage]_vars

Added == op = "add_data_point"

BreakCondition ==
    /\ RLt(force_data[Len(force_data)], RMul(Frac(1, 2), MaxSeq(force_data)))
    /\ RGt(MaxSeq(force_data), R(10))

\* C12: after an add_data_point that leaves at least 5 samples, a current
\* force below half of the running maximum force, with that maximum above
\* 10, gives the stage "Break Detected", whatever the strain, the loading
\* rate and the recent stress variation are.
C12_BreakOverrides ==
    (Added /\ Len(data) >= 5 /\ BreakCondition) =>
        live.test_stage = "Break Detected"

\* a break detected on a sample that also meets the elastic-region check
\* (strain below 0.01, force rising) and the yielding check (more than 20
\* samples, strain above 0.005, last 20 stresses within 5% of the maximum)
C12_Witness ==
    /\ Added /\ BreakCondition
    /\ live.test_stage = "Break Detected"
    /\ RLt(live.current_strain, Frac(1, 100))
    /\ RGt(live.current_strain, Frac(5, 1000))
    /\ RGt(live.loading_rate_force, Zero)
    /\ Len(stress_data) > 20
    /\ RLt(RSub(MaxSeq(LastK(stress_data, 20)), MinSeq(LastK(stress_data, 20))),
           RMul(Frac(5, 100), MaxSeq(stress_data)))

(***************************************************************************)
(* Further properties of the live path under Spec                          *)
(***************************************************************************)
\* C13: after every add_data_point that leaves fewer than 5 samples (1 to 4
\* since construction or clear_data) the stage is "Starting".
C13_StartingBelowFive ==
    (Added /\ Len(data) < 5) => live.test_stage = "Starting"

(***************************************************************************)
(* The live handlers of the two applications: MainWindow._on_data of the   *)
(* PyQt application and on_data of the DearPyGui application               *)
(***************************************************************************)
\* DATA_BUFFER_SIZE on the Raspberry Pi
DATA_BUFFER_SIZE == 10000

RAbs(x) == <<Abs(x[1]), x[2]>>

\* the fields of MainWindow the handlers below read or write, as __init__
\* sets them
MainWindow ==
    [test_data |-> <<>>, is_test_running |-> FALSE,
     current_state |-> "DISCONNECTED", cumulative_energy |-> Zero,
     test_results |-> None, batch_computations |-> 0]

\* AppState(): the fields on_data reads or writes
AppState ==
    [times |-> <<>>, forces |-> <<>>, extensions |-> <<>>, stresses |-> <<>>,
     strains |-> <<>>, true_stresses |-> <<>>, true_strains |-> <<>>,
     data_points |-> 0, force |-> Zero, max_force |-> Zero,
     max_stress |-> Zero, current_stress |-> Zero, current_strain |-> Zero,
     current_true_stress |-> Zero, current_true_strain |-> LnOf(One),
     energy |-> Zero, rate |-> Zero, strain_rate |-> Zero, load_rate |-> Zero]

\* Decimate keeping the samples at the odd offsets: test_data[101::2]
Decimate_FromOdd(t) ==
    SubSeq(t, 1, 100) \o
    [k \in 1..((Len(t) - 100) \div 2) |-> t[100 + 2 * k]]

\* self.test_data[:100] + self.test_data[100::2]
Decimate(t) ==
    SubSeq(t, 1, 100) \o
    [k \in 1..((Len(t) - 100 + 1) \div 2) |-> t[100 + 2 * k - 1]]

\* the buffer of MainWindow._on_data after the append
BufferAfter(t, dp) ==
    IF Len(t) + 1 > DATA_BUFFER_SIZE THEN Decimate(Append(t, dp))
    ELSE Append(t, dp)

\* the energy of one pair of samples as MainWindow._on_data adds it (J)
GuiEnergyIncrement(prev, dp) ==
    LET avg_force == RDiv(RAdd(dp.force, prev.force), R(2))
        d_ext == RDiv(RAbs(RSub(dp.extension, prev.extension)), R(1000))
    IN  RMul(avg_force, d_ext)

\* MainWindow._on_data(data)
OnData(dp) ==
    /\ gui # NoObject
    /\ LET t == BufferAfter(gui.test_data, dp)
       IN  gui' = [gui EXCEPT
                     !.test_data = t,
                     !.cumulative_energy =
                         IF Len(t) >= 2
                         THEN RAdd(@, GuiEnergyIncrement(t[Len(t) - 1], dp))
                         ELSE @]
    /\ op' = "_on_data"
    /\ raised' = None
    /\ UNCHANGED <<gauge_length, cross_section_area, lists, live, results, ret,
                   pending, arg, config, dialog, dpg, serial>>

\* on_data(data) of gui_dpg/app.py: the new AppState
DpgAfterData(st, dp) ==
    LET s1 == [st EXCEPT
                 !.times = Append(@, RDiv(dp.timestamp, R(1000))),
                 !.forces = Append(@, dp.force),
                 !.extensions = Append(@, dp.extension),
                 !.stresses = Append(@, dp.stress),
                 !.strains = Append(@, dp.strain),
                 !.data_points = Len(st.forces) + 1,
                 !.force = dp.force,
                 !.current_stress = dp.stress,
                 !.current_strain = RMul(dp.strain, R(100))]
        true_strain == LnOf(RAdd(One, dp.strain))
        true_stress == RMul(dp.stress, RAdd(One, dp.strain))
        s2 == IF RGt(dp.strain, Frac(-99, 100))
              THEN [s1 EXCEPT
                      !.true_strains = Append(@, true_strain),
                      !.true_stresses = Append(@, true_stress),
                      !.current_true_stress = true_stress,
                      !.current_true_strain = true_strain]
              ELSE s1
        s3 == [s2 EXCEPT
                 !.max_force = IF RGt(dp.force, @) THEN dp.force ELSE @,
                 !.max_stress = IF RGt(dp.stress, @) THEN dp.stress ELSE @]
        n == Len(s3.times)
        dt == RSub(s3.times[n], s3.times[n - 1])
        s4 == IF n >= 2 /\ RGt(dt, Zero)
              THEN [s3 EXCEPT
                      !.rate = RDiv(RAbs(RSub(s3.extensions[n],
                                              s3.extensions[n - 1])), dt),
                      !.load_rate = RDiv(RAbs(RSub(s3.forces[n],
                                                   s3.forces[n - 1])), dt),
                      !.strain_rate = RDiv(RAbs(RSub(s3.strains[n],
                                                     s3.strains[n - 1])), dt)]
              ELSE s3
        avg_force == RDiv(RAdd(s4.forces[n], s4.forces[n - 1]), R(2))
        d_ext == RDiv(RAbs(RSub(s4.extensions[n], s4.extensions[n - 1])),
                      R(1000))
    IN  IF n >= 2
        THEN [s4 EXCEPT !.energy = RAdd(@, RMul(avg_force, d_ext))]
        ELSE s4

\* on_data(data) of gui_dpg/app.py
DpgOnData(dp) ==
    /\ dpg # NoObject
    /\ dpg' = DpgAfterData(dpg, dp)
    /\ op' = "on_data"
    /\ raised' = None
    /\ UNCHANGED <<gauge_length, cross_section_area, lists, live, results, ret,
                   pending, arg, config, dialog, gui, serial>>

(***************************************************************************)
(* SpecLive: one of the three live accumulators (a ResultsAnalyzer on its  *)
(* own, the PyQt main window, the DearPyGui state) fed samples whose force *)
(* may be negative and whose extension may go back                         *)
(***************************************************************************)
MaxLiveSamples == 3

LiveSamples ==
    {[force |-> R(f), d_ext |-> Frac(e, 40)] : f \in {-20, 0, 100}, e \in {-1, 0, 1}}

\* the DATA frame of the controller for a force and an extension, with
\* stress and strain for the default geometry
Frame(n, force, extension) ==
    [timestamp |-> R(1000 * n), force |-> force, extension |-> extension,
     stress |-> RDiv(force, R(40)), strain |-> RDiv(extension, R(50))]

InitLive ==
    /\ Fresh /\ pending = <<>> /\ arg = None
    /\ config = NoObject /\ dialog = NoObject /\ serial = NoObject
    /\ \E app \in {"analyzer", "gui", "gui_dpg"} :
          /\ gui = IF app = "gui" THEN MainWindow ELSE NoObject
          /\ dpg = IF app = "gui_dpg" THEN AppState ELSE NoObject

\* the harness feeds the analyzer
AddLive ==
    /\ gui = NoObject /\ dpg = NoObject
    /\ Len(data) < MaxLiveSamples
    /\ \E s \in LiveSamples :
          AddDataPoint(RAdd(LastOr(time_data, Zero), One), s.force,
                       RAdd(LastOr(extension_data, Zero), s.d_ext))
    /\ UNCHANGED <<pending, arg>>

\* the serial handler emits data_received
GuiData ==
    /\ gui # NoObject
    /\ Len(gui.test_data) < MaxLiveSamples
    /\ \E s \in LiveSamples :
          OnData(Frame(Len(gui.test_data) + 1, s.force,
                       RAdd(IF gui.test_data = <<>> THEN Zero
                            ELSE gui.test_data[Len(gui.test_data)].extension,
                            s.d_ext)))

\* the serial handler calls the on_data callback
DpgData ==
    /\ dpg # NoObject
    /\ Len(dpg.forces) < MaxLiveSamples
    /\ \E s \in LiveSamples :
          DpgOnData(Frame(Len(dpg.forces) + 1, s.force,
                          RAdd(LastOr(dpg.extensions, Zero), s.d_ext)))

NextLive == AddLive \/ GuiData \/ DpgData

SpecLive == InitLive /\ [][NextLive]_vars

\* the signed trapezoid of a pair of samples, in J
SignedTrapezoid(f_prev, f_curr, ext_prev, ext_curr) ==
    RDiv(RMul(RMul(Frac(1, 2), RAdd(f_curr, f_prev)), RSub(ext_curr, ext_prev)),
         R(1000))

\* C14: in each of the three live accumulators a pair of consecutive samples
\* whose extension decreases adds the signed trapezoid
\* 0.5*(F_curr+F_prev)*(ext_curr-ext_prev) to the running energy, not the
\* one of the absolute extension change.
C14_SignedEnergy ==
    [][/\ (/\ op' = "add_data_point" /\ Len(data') >= 2 /\ Len(data') > Len(data)
           /\ RLt(extension_data'[Len(data')], extension_data'[Len(data') - 1])) =>
             RSub(live'.energy_absorbed, live.energy_absorbed) =
                 SignedTrapezoid(force_data'[Len(data') - 1],
                                 force_data'[Len(data')],
                                 extension_data'[Len(data') - 1],
                                 extension_data'[Len(data')])
       /\ (/\ op' = "_on_data" /\ Len(gui'.test_data) >= 2
           /\ RLt(gui'.test_data[Len(gui'.test_data)].extension,
                  gui'.test_data[Len(gui'.test_data) - 1].extension)) =>
             RSub(gui'.cumulative_energy, gui.cumulative_energy) =
                 SignedTrapezoid(gui'.test_data[Len(gui'.test_data) - 1].force,
                                 gui'.test_data[Len(gui'.test_data)].force,
                                 gui'.test_data[Len(gui'.test_data) - 1].extension,
                                 gui'.test_data[Len(gui'.test_data)].extension)
       /\ (/\ op' = "on_data" /\ Len(dpg'.forces) >= 2
           /\ RLt(dpg'.extensions[Len(dpg'.forces)],
                  dpg'.extensions[Len(dpg'.forces) - 1])) =>
             RSub(dpg'.energy, dpg.energy) =
                 SignedTrapezoid(dpg'.forces[Len(dpg'.forces) - 1],
                                 dpg'.forces[Len(dpg'.forces)],
                                 dpg'.extensions[Len(dpg'.forces) - 1],
                                 dpg'.extensions[Len(dpg'.forces)])]_vars

NonDecreasing(s) == \A i \in 2..Len(s) : RLe(s[i - 1], s[i])

PairForcesNonNegative(f) == \A i \in 2..Len(f) : RGe(RAdd(f[i - 1], f[i]), Zero)

\* C15 as stated: over add_data_point calls whose extension is
\* non-decreasing from each sample to the next, live.energy_absorbed never
\* decreases from one update to the next.
C15_EnergyMonotone ==
    [][(/\ op' = "add_data_point" /\ Len(data') > Len(data)
        /\ NonDecreasing(extension_data')) =>
          RGe(live'.energy_absorbed, live.energy_absorbed)]_vars

\* C15 amended: the same, for samples in which the mean force of every two
\* consecutive samples is non-negative as well.
C15_EnergyMonotoneNonNegForce ==
    [][(/\ op' = "add_data_point" /\ Len(data') > Len(data)
        /\ NonDecreasing(extension_data')
        /\ PairForcesNonNegative(force_data')) =>
          RGe(live'.energy_absorbed, live.energy_absorbed)]_vars

\* three samples of growing extension, one of them with a negative force
\* but every pair with a positive mean, and energy accumulated
C15_Witness ==
    /\ Added /\ Len(data) = 3
    /\ NonDecreasing(extension_data)
    /\ RLt(extension_data[1], extension_data[3])
    /\ PairForcesNonNegative(force_data)
    /\ \E i \in 1..3 : RLt(force_data[i], Zero)
    /\ RGt(live.energy_absorbed, Zero)

\* the true stress and the true strain of the i-th recorded sample
TrueStressOf(i) == RMul(stress_data[i], RAdd(One, strain_data[i]))
TrueStrainOf(i) == LnOf(RAdd(One, strain_data[i]))

\* C16: for a sample with engineering strain >= 0.5 the true stress and true
\* strain are flagged invalid, neither computed nor carried over: the live
\* values are not those of the current or of an earlier sample, the batch
\* values at UTS are not computed from a UTS sample of strain >= 0.5, and
\* the same holds for the values on_data keeps.
C16_TrueValuesDomain ==
    /\ (/\ Added /\ Len(data) >= 2
        /\ RGe(strain_data[Len(data)], Frac(1, 2))) =>
          \A i \in 1..Len(data) :
             /\ live.current_true_stress # TrueStressOf(i)
             /\ live.current_true_strain # TrueStrainOf(i)
    /\ (/\ Calculated /\ Len(data) >= 10
        /\ RGe(results.strain_at_uts, Frac(1, 2))) =>
          /\ results.true_stress_at_uts #
                RMul(results.ultimate_tensile_strength,
                     RAdd(One, results.strain_at_uts))
          /\ results.true_strain_at_uts # LnOf(RAdd(One, results.strain_at_uts))
    /\ (/\ op = "on_data"
        /\ RGe(dpg.strains[Len(dpg.strains)], Frac(1, 2))) =>
          /\ dpg.current_true_stress #
                RMul(dpg.stresses[Len(dpg.strains)],
                     RAdd(One, dpg.strains[Len(dpg.strains)]))
          /\ dpg.current_true_strain #
                LnOf(RAdd(One, dpg.strains[Len(dpg.strains)]))

(***************************************************************************)
(* SpecGeometry: an analyzer constructed with any geometry, zero and       *)
(* negative values included, driven by add_data_point and                  *)
(* calculate_results                                                       *)
(***************************************************************************)
MaxGeometrySamples == 3

GaugeLengths == {R(-50), Zero, R(50)}
Areas == {R(-40), Zero, R(40)}

InitGeometry ==
    /\ gauge_length \in GaugeLengths
    /\ cross_section_area \in Areas
    /\ data = <<>>
    /\ time_data = <<>>
    /\ force_data = <<>>
    /\ extension_data = <<>>
    /\ displacement_data = <<>>
    /\ stress_data = <<>>
    /\ strain_data = <<>>
    /\ live = LiveCalculations
    /\ results = None
    /\ ret = None
    /\ op = "init"
    /\ raised = None
    /\ NoShell /\ pending = <<>> /\ arg = None

AddGeometry ==
    /\ Len(data) < MaxGeometrySamples
    /\ \E s \in LiveSamples :
          AddDataPoint(RAdd(LastOr(time_data, Zero), One), s.force,
                       RAdd(LastOr(extension_data, Zero), s.d_ext))
    /\ UNCHANGED <<pending, arg>>

NextGeometry == AddGeometry \/ CalculateResults

SpecGeometry == InitGeometry /\ [][NextGeometry]_vars

\* C17: whatever the geometry and the samples, add_data_point and
\* calculate_results return normally, and calculate_results yields a
\* MechanicalProperties value.
C17_TotalApi ==
    /\ raised = None
    /\ Calculated => DOMAIN results = DOMAIN MechanicalProperties

(***************************************************************************)
(* The PyQt application: configuration, its dialog, and MainWindow's       *)
(* handlers.  The dialog edits the TestConfiguration object MainWindow     *)
(* holds (ConfigDialog keeps the reference it is given), so config is the  *)
(* one object both see.                                                    *)
(***************************************************************************)
\* TestConfiguration(): the fields validate() reads
TestConfiguration ==
    [specimen |-> [shape |-> "RECTANGULAR", gauge_length |-> R(50),
                   thickness |-> R(4), width |-> R(10), diameter |-> Zero,
                   inner_diameter |-> Zero, cross_section_area |-> R(40),
                   auto_calculate_area |-> TRUE],
     hardware |-> [upper_limit |-> R(150), lower_limit |-> Zero],
     control |-> [test_speed |-> R(2)],
     termination |-> [max_force |-> R(450), max_extension |-> R(100),
                      enable_max_force |-> TRUE, enable_max_extension |-> TRUE]]

\* math.pi, as a rational
Pi == Frac(355, 113)

CircleArea(d) == RMul(Pi, RMul(RDiv(d, R(2)), RDiv(d, R(2))))

\* SpecimenGeometry.calculate_area()
CalculateArea(sp) ==
    IF sp.shape \in {"RECTANGULAR", "DOG_BONE"} THEN RMul(sp.thickness, sp.width)
    ELSE IF sp.shape = "CIRCULAR" THEN CircleArea(sp.diameter)
    ELSE IF sp.shape = "TUBULAR"
    THEN RSub(CircleArea(sp.diameter), CircleArea(sp.inner_diameter))
    ELSE sp.cross_section_area

\* the configuration as validate() leaves it
Recalculated(c) ==
    IF c.specimen.auto_calculate_area
    THEN [c EXCEPT !.specimen.cross_section_area = CalculateArea(c.specimen)]
    ELSE c

\* the list of errors validate() returns
Validate(c) ==
    (IF RLe(c.specimen.gauge_length, Zero)
     THEN <<"Gauge length must be positive">> ELSE <<>>) \o
    (IF RLe(Recalculated(c).specimen.cross_section_area, Zero)
     THEN <<"Cross-sectional area must be positive">> ELSE <<>>) \o
    (IF RLe(c.hardware.upper_limit, c.hardware.lower_limit)
     THEN <<"Upper limit must be greater than lower limit">> ELSE <<>>) \o
    (IF RLe(c.control.test_speed, Zero)
     THEN <<"Test speed must be positive">> ELSE <<>>) \o
    (IF c.termination.enable_max_force /\ RLe(c.termination.max_force, Zero)
     THEN <<"Max force must be positive">> ELSE <<>>) \o
    (IF c.termination.enable_max_extension
        /\ RLe(c.termination.max_extension, Zero)
     THEN <<"Max extension must be positive">> ELSE <<>>)

RECURSIVE Pow10(_)
Pow10(k) == IF k = 0 THEN 1 ELSE 10 * Pow10(k - 1)

\* QDoubleSpinBox.setValue(v) on a box of range [lo, hi] showing the given
\* number of decimals: the value the box then holds
SpinValue(v, lo, hi, decimals) ==
    LET c == IF RLt(v, lo) THEN lo ELSE IF RGt(v, hi) THEN hi ELSE v
        p == Pow10(decimals)
    IN  Frac((2 * c[1] * p + c[2]) \div (2 * c[2]), p)

\* the widgets of the specimen tab after _calculate_area()
AreaShown(w) ==
    IF ~w.auto_area_check THEN w
    ELSE [w EXCEPT !.area_spin =
            SpinValue(CalculateArea(
                         [shape |-> w.shape_combo,
                          thickness |-> w.thickness_spin,
                          width |-> w.width_spin,
                          diameter |-> w.diameter_spin,
                          inner_diameter |-> w.inner_diameter_spin,
                          cross_section_area |-> w.area_spin]),
                      Frac(1, 1000), R(10000), 4)]

\* the widgets of the specimen tab after _load_config()
LoadConfig(c) ==
    [shape_combo |-> c.specimen.shape,
     gauge_length_spin |-> SpinValue(c.specimen.gauge_length, One, R(500), 2),
     thickness_spin |-> SpinValue(c.specimen.thickness, Frac(1, 100), R(100), 3),
     width_spin |-> SpinValue(c.specimen.width, Frac(1, 100), R(100), 3),
     diameter_spin |-> SpinValue(c.specimen.diameter, Frac(1, 100), R(100), 3),
     inner_diameter_spin |-> SpinValue(c.specimen.inner_diameter, Zero, R(100), 3),
     auto_area_check |-> c.specimen.auto_calculate_area,
     area_spin |-> SpinValue(c.specimen.cross_section_area, Frac(1, 1000),
                             R(10000), 4)]

\* the configuration after _save_to_config()
SaveToConfig(c, w) ==
    [c EXCEPT !.specimen =
        [shape |-> w.shape_combo,
         gauge_length |-> w.gauge_length_spin,
         thickness |-> w.thickness_spin,
         width |-> w.width_spin,
         diameter |-> w.diameter_spin,
         inner_diameter |-> w.inner_diameter_spin,
         auto_calculate_area |-> w.auto_area_check,
         cross_section_area |-> w.area_spin]]

\* SerialHandler(): closed, nothing sent yet, no signal emitted yet
SerialHandler == [is_open |-> FALSE, sent |-> <<>>, emitted |-> <<>>]

\* send_command(command) for each of the commands: what has been written
SendCommands(s, commands) ==
    IF s.is_open THEN [s EXCEPT !.sent = @ \o commands] ELSE s

\* self.analyzer = ResultsAnalyzer(gauge_length, cross_section_area)
NewAnalyzer(g, a) ==
    /\ gauge_length' = g
    /\ cross_section_area' = a
    /\ data' = <<>>
    /\ time_data' = <<>>
    /\ force_data' = <<>>
    /\ extension_data' = <<>>
    /\ displacement_data' = <<>>
    /\ stress_data' = <<>>
    /\ strain_data' = <<>>
    /\ live' = LiveCalculations

analyzer == <<gauge_length, cross_section_area, lists, live>>

MaxCommands == 6

\* the port opens: SerialHandler.connect() and MainWindow._on_connected()
OnConnected ==
    /\ gui # NoObject
    /\ ~serial.is_open
    /\ Len(serial.sent) < MaxCommands
    /\ serial' = [serial EXCEPT !.is_open = TRUE,
                                !.sent = @ \o <<"ID", "STATUS">>]
    /\ op' = "_on_connected"
    /\ raised' = None
    /\ UNCHANGED <<analyzer, results, ret, pending, arg, config, dialog, gui, dpg>>

\* what the controller may report about itself
Statuses ==
    {[state |-> "READY", is_running |-> FALSE],
     [state |-> "RUNNING", is_running |-> TRUE],
     [state |-> "STOPPED", is_running |-> FALSE]}

\* MainWindow._on_status(status)
OnStatus ==
    /\ gui # NoObject
    /\ serial.is_open
    /\ \E status \in Statuses :
          gui' = [gui EXCEPT !.current_state = status.state,
                             !.is_test_running = status.is_running]
    /\ op' = "_on_status"
    /\ raised' = None
    /\ UNCHANGED <<analyzer, results, ret, pending, arg, config, dialog, dpg,
                   serial>>

\* MainWindow._open_config_dialog() up to dialog.exec_()
OpenConfigDialog ==
    /\ gui # NoObject
    /\ dialog = NoObject
    /\ dialog' = LoadConfig(config)
    /\ op' = "_open_config_dialog"
    /\ raised' = None
    /\ UNCHANGED <<analyzer, results, ret, pending, arg, config, gui, dpg,
                   serial>>

\* the widgets of the specimen tab after the user has set one of them and
\* the slots connected to it have run
Edited(w) ==
    {AreaShown([w EXCEPT !.shape_combo = v]) : v \in {"RECTANGULAR", "TUBULAR"}}
    \cup {[w EXCEPT !.gauge_length_spin = SpinValue(v, One, R(500), 2)] :
             v \in {Zero}}
    \cup {AreaShown([w EXCEPT !.inner_diameter_spin =
                         SpinValue(v, Zero, R(100), 3)]) :
             v \in {Zero, Frac(1, 100)}}
    \cup {AreaShown([w EXCEPT !.auto_area_check = v]) : v \in BOOLEAN}

\* the user changes a field of the specimen tab
EditGeometry ==
    /\ dialog # NoObject
    /\ dialog' \in Edited(dialog)
    /\ op' = "edit"
    /\ raised' = None
    /\ UNCHANGED <<analyzer, results, ret, pending, arg, config, gui, dpg,
                   serial>>

\* ConfigDialog._validate_config()
ValidateConfig ==
    /\ dialog # NoObject
    /\ config' = Recalculated(SaveToConfig(config, dialog))
    /\ op' = "_validate_config"
    /\ raised' = None
    /\ UNCHANGED <<analyzer, results, ret, pending, arg, dialog, gui, dpg,
                   serial>>

\* ConfigDialog._apply_config(), with the user's answer to "Apply anyway?",
\* and, once the dialog is accepted, the rest of _open_config_dialog()
ApplyConfig ==
    /\ dialog # NoObject
    /\ Len(serial.sent) < MaxCommands
    /\ config' = Recalculated(SaveToConfig(config, dialog))
    /\ \E answer \in {"Yes", "No"} :
          IF Validate(SaveToConfig(config, dialog)) # <<>> /\ answer # "Yes"
          THEN UNCHANGED <<dialog, serial, analyzer>>
          ELSE /\ dialog' = NoObject
               /\ IF serial.is_open
                  THEN /\ serial' = SendCommands(serial,
                                        <<"SPEED", "MAXFORCE", "MAXEXT">>)
                       /\ NewAnalyzer(config'.specimen.gauge_length,
                                      config'.specimen.cross_section_area)
                  ELSE UNCHANGED <<serial, analyzer>>
    /\ op' = "_apply_config"
    /\ raised' = None
    /\ UNCHANGED <<results, ret, pending, arg, gui, dpg>>

\* the Cancel button: QDialog.reject()
CancelConfig ==
    /\ dialog # NoObject
    /\ dialog' = NoObject
    /\ op' = "reject"
    /\ raised' = None
    /\ UNCHANGED <<analyzer, results, ret, pending, arg, config, gui, dpg,
                   serial>>

\* start_btn is enabled, as _update_button_states() left it
StartEnabled ==
    serial.is_open /\ gui.current_state = "READY" /\ ~gui.is_test_running

\* MainWindow._start_test(), on a click of the Start button
StartTest ==
    /\ gui # NoObject
    /\ dialog = NoObject
    /\ StartEnabled
    /\ Len(serial.sent) < MaxCommands
    /\ gui' = [gui EXCEPT !.test_data = <<>>, !.cumulative_energy = Zero,
                          !.test_results = None]
    /\ NewAnalyzer(config.specimen.gauge_length,
                   config.specimen.cross_section_area)
    /\ serial' = SendCommands(serial, <<"START">>)
    /\ op' = "_start_test"
    /\ raised' = None
    /\ UNCHANGED <<results, ret, pending, arg, config, dialog, dpg>>

(***************************************************************************)
(* SpecConfig: the PyQt main window with its configuration dialog and the  *)
(* Start button                                                            *)
(***************************************************************************)
\* the state after MainWindow.__init__()
InitGui ==
    /\ Fresh /\ pending = <<>> /\ arg = None
    /\ config = TestConfiguration
    /\ dialog = NoObject
    /\ gui = MainWindow
    /\ dpg = NoObject
    /\ serial = SerialHandler

NextConfig ==
    \/ OnConnected \/ OnStatus \/ OpenConfigDialog \/ EditGeometry
    \/ ValidateConfig \/ ApplyConfig \/ CancelConfig \/ StartTest

SpecConfig == InitGui /\ [][NextConfig]_vars

\* C18: no test is started (no START sent, no analyzer constructed for the
\* run) while the active configuration has gauge_length <= 0 or
\* cross_section_area <= 0.
C18_NoStartOnInvalidGeometry ==
    (op = "_start_test") =>
        /\ RGt(config.specimen.gauge_length, Zero)
        /\ RGt(config.specimen.cross_section_area, Zero)
        /\ RGt(gauge_length, Zero)
        /\ RGt(cross_section_area, Zero)


(***************************************************************************)
(* Serial input: SerialHandler._read_loop and _parse_response.  A line is  *)
(* the sequence line.split(); the token after the command is kept as the   *)
(* sequence of its fields, token.split(',').                               *)
(***************************************************************************)
\* the texts a field of a frame may hold
Fields == {"0.5", "12", "x", ""}

\* float(text): the value, or ValueError for a text that is no number
Float(text) ==
    CASE text = "0.5" -> [value |-> Frac(1, 2)]
      [] text = "12"  -> [value |-> R(12)]
      [] OTHER        -> [raises |-> "ValueError"]

Raises(outcome) == "raises" \in DOMAIN outcome

\* the DATA branch of _parse_response: what the try block does
ParseData(parts) ==
    IF Len(parts) < 2 THEN [raises |-> "IndexError"]
    ELSE LET values == parts[2] IN
         IF Len(values) >= 5
         THEN IF \E i \in 1..5 : Raises(Float(values[i]))
              THEN [raises |-> "ValueError"]
              ELSE [emits |-> <<[signal    |-> "data_received",
                                 timestamp |-> Float(values[1]).value,
                                 force     |-> Float(values[2]).value,
                                 extension |-> Float(values[3]).value,
                                 stress    |-> Float(values[4]).value,
                                 strain    |-> Float(values[5]).value]>>]
         ELSE [emits |-> <<>>]

\* except (ValueError, IndexError): pass
Caught(outcome) ==
    IF Raises(outcome) /\ outcome.raises \in {"ValueError", "IndexError"}
    THEN [emits |-> <<>>]
    ELSE outcome

\* SerialHandler._parse_response(line)
ParseResponse(parts) ==
    IF parts = <<>> THEN [emits |-> <<>>]
    ELSE IF parts[1] = "OK"
    THEN [emits |-> <<[signal |-> "response_received"]>>]
    ELSE IF parts[1] = "DATA" THEN Caught(ParseData(parts))
    ELSE [emits |-> <<>>]

\* one pass of the inner loop of _read_loop: the next complete line is
\* split and parsed; an exception that escapes is reported as a read error
ReadLine ==
    /\ serial # NoObject
    /\ serial.is_open
    /\ pending # <<>>
    /\ LET outcome == ParseResponse(Head(pending)) IN
          /\ ret' = IF Raises(outcome) THEN <<[signal |-> "error_occurred"]>>
                    ELSE outcome.emits
          /\ raised' = IF Raises(outcome) THEN outcome.raises ELSE None
    /\ serial' = [serial EXCEPT !.emitted = @ \o ret']
    /\ arg' = Head(pending)
    /\ pending' = Tail(pending)
    /\ op' = "_parse_response"
    /\ UNCHANGED <<analyzer, results, config, dialog, gui, dpg>>

(***************************************************************************)
(* SpecParse: the reader receives one arbitrary DATA line and then a       *)
(* well-formed frame                                                       *)
(***************************************************************************)
MaxFields == 6

Payloads == UNION {[1..n -> Fields] : n \in 1..MaxFields}

Lines == {<<"DATA">>, <<"OK">>} \cup {<<"DATA", p>> : p \in Payloads}

GoodFrame == <<"DATA", <<"12", "0.5", "0.5", "12", "0.5">>>>

InitParse ==
    /\ Fresh /\ arg = None
    /\ config = NoObject /\ dialog = NoObject /\ gui = NoObject
    /\ dpg = NoObject
    /\ serial = [SerialHandler EXCEPT !.is_open = TRUE]
    /\ \E line \in Lines : pending = <<line, GoodFrame>>

NextParse == ReadLine

SpecParse == InitParse /\ [][NextParse]_vars

\* the frame just parsed is a DATA line that is not five numbers
Malformed(parts) ==
    /\ parts # <<>>
    /\ parts[1] = "DATA"
    /\ \/ Len(parts) < 2
       \/ Len(parts[2]) # 5
       \/ \E i \in 1..Len(parts[2]) : Raises(Float(parts[2][i]))

Parsed == op = "_parse_response"

\* C19: a DATA line whose payload does not have exactly 5 fields, has a
\* non-numeric field, or is missing produces no data-point event and raises
\* no exception, and the following line is still processed.
C19_MalformedDropped ==
    /\ (Parsed /\ Malformed(arg)) => (ret = <<>> /\ raised = None)
    /\ (Parsed /\ pending = <<>>) =>
          /\ arg = GoodFrame
          /\ Len(ret) = 1
          /\ ret[1].signal = "data_received"


(***************************************************************************)
(* The Stop button of the PyQt main window                                 *)
(***************************************************************************)
\* ResultsAnalyzer.load_data_batch(times, forces, extensions): the arrays of
\* a fresh analyzer filled from the three channels, stress and strain
\* derived from the geometry as add_data_point derives them
LoadDataBatch(times, forces, extensions, g, a) ==
    LET n == Len(times)
        stresses == [i \in 1..n |-> RDiv(forces[i], a)]
        strains == [i \in 1..n |-> RDiv(extensions[i], g)]
    IN  [data |-> [i \in 1..n |->
                     [time |-> times[i], force |-> forces[i],
                      extension |-> extensions[i],
                      displacement |-> extensions[i],
                      stress |-> stresses[i], strain |-> strains[i]]],
         force_data |-> forces, extension_data |-> extensions,
         stress_data |-> stresses, strain_data |-> strains]

\* TestResults(...) as _calculate_final_results fills it
TestResults(props, times, n) ==
    [max_force |-> props.max_force,
     max_stress |-> props.ultimate_tensile_strength,
     max_strain |-> props.elongation_at_break,
     max_extension |-> props.extension_at_break,
     yield_strength |-> props.yield_strength_offset,
     youngs_modulus |-> props.youngs_modulus,
     elongation_at_break |-> props.elongation_at_break,
     energy_absorbed |-> props.energy_to_break,
     failure_type |-> props.failure_type,
     test_duration |-> IF Len(times) > 1
                       THEN RSub(times[Len(times)], times[1]) ELSE Zero,
     data_points |-> n]

\* MainWindow._calculate_final_results(): the window afterwards;
\* batch_computations counts the calls of calculate_results
CalculateFinalResults(w, c) ==
    IF w.test_data = <<>> THEN w
    ELSE LET n == Len(w.test_data)
             times == [i \in 1..n |-> RDiv(w.test_data[i].timestamp, R(1000))]
             forces == [i \in 1..n |-> w.test_data[i].force]
             extensions == [i \in 1..n |-> w.test_data[i].extension]
             loaded == LoadDataBatch(times, forces, extensions,
                                     c.specimen.gauge_length,
                                     c.specimen.cross_section_area)
         IN  [w EXCEPT
                !.test_results =
                    TestResults(CalcResults(loaded.data, loaded.force_data,
                                            loaded.extension_data,
                                            loaded.stress_data,
                                            loaded.strain_data), times, n),
                !.batch_computations = @ + 1]

\* stop_btn is enabled, as _update_button_states() left it
StopEnabled == serial.is_open /\ gui.is_test_running

\* MainWindow._stop_test(), on a click of the Stop button
StopTest ==
    /\ gui # NoObject
    /\ StopEnabled
    /\ Len(serial.sent) < MaxCommands
    /\ serial' = SendCommands(serial, <<"STOP">>)
    /\ gui' = IF Len(gui.test_data) > 10
              THEN CalculateFinalResults(gui, config)
              ELSE gui
    /\ op' = "_stop_test"
    /\ raised' = None
    /\ UNCHANGED <<analyzer, results, ret, pending, arg, config, dialog, dpg>>

(***************************************************************************)
(* SpecStop: a connected main window, a controller that streams a steadily *)
(* loaded specimen once START was sent, and the Start and Stop buttons     *)
(***************************************************************************)
MaxStopSamples == 11

\* the controller delivers the next frame of the test
StreamData ==
    /\ gui # NoObject
    /\ serial.is_open
    /\ \E i \in 1..Len(serial.sent) : serial.sent[i] = "START"
    /\ Len(gui.test_data) < MaxStopSamples
    /\ LET n == Len(gui.test_data) + 1
       IN  OnData(Frame(n, R(100 * n), Frac(n, 40)))

NextStop == OnConnected \/ OnStatus \/ StartTest \/ StreamData \/ StopTest

SpecStop == InitGui /\ [][NextStop]_vars

\* the STOP commands sent since the last START
RECURSIVE StopsSinceStart(_)
StopsSinceStart(sent) ==
    IF sent = <<>> \/ sent[Len(sent)] = "START" THEN 0
    ELSE (IF sent[Len(sent)] = "STOP" THEN 1 ELSE 0)
         + StopsSinceStart(SubSeq(sent, 1, Len(sent) - 1))

\* C20: the first Stop of a test whose buffer holds at least 10 samples
\* triggers exactly one batch computation, and a further Stop with no Start
\* in between computes nothing and leaves test_results unchanged.
C20_StopOneShot ==
    [][(op' = "_stop_test") =>
          IF StopsSinceStart(serial.sent) = 0
          THEN Len(gui.test_data) >= 10 =>
                  gui'.batch_computations = gui.batch_computations + 1
          ELSE /\ gui'.batch_computations = gui.batch_computations
               /\ gui'.test_results = gui.test_results]_vars

(***************************************************************************)
(* SpecArrays: an analyzer constructed with any geometry, driven by        *)
(* add_data_point, failing calls included, and clear_data                  *)
(***************************************************************************)
NextArrays == AddGeometry \/ ClearData

SpecArrays == InitGeometry /\ [][NextArrays]_vars

\* C25: the seven lists always have the same length, stress_data[i] is
\* force_data[i]/cross_section_area and strain_data[i] is
\* extension_data[i]/gauge_length for every i, also after an add_data_point
\* that raised; after clear_data all are empty and live is a fresh
\* LiveCalculations.
C25_ParallelArrays ==
    /\ \A l \in {Len(time_data), Len(force_data), Len(extension_data),
                 Len(displacement_data), Len(stress_data), Len(strain_data)} :
          l = Len(data)
    /\ \A i \in 1..Len(data) :
          /\ stress_data[i] = RDiv(force_data[i], cross_section_area)
          /\ strain_data[i] = RDiv(extension_data[i], gauge_length)
    /\ (op = "clear_data") => (data = <<>> /\ live = LiveCalculations)

C25_Witness ==
    /\ op = "add_data_point"
    /\ raised = None
    /\ Len(data) = MaxGeometrySamples
    /\ live # LiveCalculations

(***************************************************************************)
(* SpecCurves: ten-sample curves, default geometry.  Five samples lie on   *)
(* the line stress = 20000 * strain inside the modulus window, five more   *)
(* follow at fixed strains with stresses drawn from three levels; the      *)
(* load cell reads the force with either sign.  The samples are fed in     *)
(* order and calculate_results may be called at any point.                 *)
(***************************************************************************)
CurveTail == 5

\* the strains of the samples after the window, in units of 0.0001
CurveTailStrains == <<50, 100, 200, 600, 1200>>

\* the stresses (MPa) a sample after the window may show
CurveTailStresses == {20, 60, 100}

CurveSigns == {1, -1}

CurveSample(t, sign, stress, k) ==
    [time |-> R(t), force |-> R(sign * stress * 40),
     extension |-> RMul(Frac(k, 10000), R(50))]

Curve(sign, levels) ==
    [i \in 1..5 |-> CurveSample(i, sign, 10 * i, 5 * i)] \o
    [i \in 1..CurveTail |->
        CurveSample(5 + i, sign, levels[i],
                    CurveTailStrains[((i - 1) % 5) + 1] + 1200 * ((i - 1) \div 5))]

InitCurves ==
    /\ Fresh /\ NoShell /\ arg = None
    /\ \E sign \in CurveSigns, levels \in [1..CurveTail -> CurveTailStresses] :
          pending = Curve(sign, levels)

NextCurves == Deliver \/ CalculateResults

SpecCurves == InitCurves /\ [][NextCurves]_vars

\* the yield strain lies after one sample and at or before the next
YieldBracketed ==
    \E i \in 2..Len(strain_data) :
        /\ RLt(strain_data[i - 1], results.strain_at_yield)
        /\ RLe(results.strain_at_yield, strain_data[i])

YieldFound == results.strain_at_yield # Zero \/ results.yield_strength_offset # Zero

\* C26: in every result of calculate_results the ultimate tensile strength
\* is at least the yield strength and the break stress, max_force is at
\* least the force at break and at yield, a yield point lies between its two
\* bracketing samples, and the note "UTS less than yield strength (unusual)"
\* is absent.
C26_ResultOrdering ==
    Calculated =>
        /\ RGe(results.ultimate_tensile_strength, results.yield_strength_offset)
        /\ RGe(results.ultimate_tensile_strength, results.break_stress)
        /\ RGe(results.max_force, results.force_at_break)
        /\ RGe(results.max_force, results.force_at_yield)
        /\ YieldFound => YieldBracketed
        /\ ~HasNote(results, "UTS less than yield strength (unusual)")

\* C26 amended: the same for results whose largest force and largest stress
\* are not negative.
C26_ResultOrderingNonNegative ==
    (/\ Calculated
     /\ RGe(results.max_force, Zero)
     /\ RGe(results.ultimate_tensile_strength, Zero)) =>
        /\ RGe(results.ultimate_tensile_strength, results.yield_strength_offset)
        /\ RGe(results.ultimate_tensile_strength, results.break_stress)
        /\ RGe(results.max_force, results.force_at_break)
        /\ RGe(results.max_force, results.force_at_yield)
        /\ YieldFound => YieldBracketed
        /\ ~HasNote(results, "UTS less than yield strength (unusual)")

\* a yield point interpolated strictly inside a falling segment, below the
\* ultimate tensile strength
C26_Witness ==
    /\ Calculated
    /\ Len(data) >= 10
    /\ YieldFound
    /\ RLt(results.yield_strength_offset, results.ultimate_tensile_strength)
    /\ \E i \in 2..Len(strain_data) :
          /\ RLt(strain_data[i - 1], results.strain_at_yield)
          /\ RLt(results.strain_at_yield, strain_data[i])
          /\ RLt(stress_data[i], stress_data[i - 1])

\* C27: when live.test_stage is "Break Detected" at the last of at least 10
\* samples, calculate_results reports a break point whose force is below
\* 0.5 x max_force, at an index no later than the last sample.
C27_LiveBatchBreak ==
    (Calculated /\ Len(data) >= 10 /\ live.test_stage = "Break Detected") =>
        /\ RLt(results.force_at_break, RMul(Frac(1, 2), results.max_force))
        /\ FindBreakPoint(force_data) \in 1..Len(force_data)
        /\ results.force_at_break = force_data[FindBreakPoint(force_data)]
        /\ results.strain_at_break = strain_data[FindBreakPoint(force_data)]

\* the live stage reports the break at the tenth sample and the batch scan
\* finds the drop two samples earlier
C27_Witness ==
    /\ Calculated
    /\ Len(data) >= 10
    /\ live.test_stage = "Break Detected"
    /\ FindBreakPoint(force_data) = Len(force_data) - 2

\* no sample from the maximum on is below half the maximum force
NoForceDrop ==
    \A i \in ArgMax(force_data)..Len(force_data) :
        RGe(force_data[i], RMul(break_detection_drop, MaxSeq(force_data)))

\* C28: the failure type of every result is Brittle, Necking/Ductile,
\* Ductile or Unknown, never Grip Failure, Partial Break or No Break; a curve
\* without a force drop is classified by the strain of its last sample.
C28_FailureTypes ==
    Calculated =>
        /\ results.failure_type \in
              {"Brittle", "Necking/Ductile", "Ductile", "Unknown"}
        /\ (Len(data) >= 10 /\ NoForceDrop) =>
              /\ results.strain_at_break = strain_data[Len(strain_data)]
              /\ results.failure_type =
                    DetermineFailureType(stress_data, strain_data,
                                         ArgMax(stress_data), Len(strain_data))

\* a curve that never drops, ending at strain 0.12, is reported as Ductile
C28_Witness ==
    /\ Calculated
    /\ Len(data) >= 10
    /\ NoForceDrop
    /\ results.failure_type = "Ductile"

(***************************************************************************)
(* SpecBuffer: the PyQt main window during a long test.  The controller    *)
(* has streamed samples of an unloaded machine (force 0, extension 0)      *)
(* until the buffer is full or nearly so, and goes on with loaded samples. *)
(***************************************************************************)
\* how far below DATA_BUFFER_SIZE the buffer may start, and how many
\* samples follow
MaxBufferFrames == 2

\* the number of the frame that arrived last
FramesSeen(w) ==
    IF w.test_data = <<>> THEN 0
    ELSE w.test_data[Len(w.test_data)].timestamp[1] \div 1000

\* the loaded samples: 100 N with the extension going up, down or staying
BufferSamples == {s \in LiveSamples : s.force = R(100)}

InitBuffer ==
    /\ Fresh /\ pending = <<>> /\ arg = None
    /\ config = TestConfiguration
    /\ dialog = NoObject
    /\ dpg = NoObject
    /\ serial = [SerialHandler EXCEPT !.is_open = TRUE,
                                      !.sent = <<"ID", "STATUS", "START">>]
    /\ \E n \in (DATA_BUFFER_SIZE - MaxBufferFrames)..DATA_BUFFER_SIZE :
          gui = [MainWindow EXCEPT
                   !.test_data = [i \in 1..n |-> Frame(i, Zero, Zero)],
                   !.is_test_running = TRUE,
                   !.current_state = "RUNNING"]

BufferData ==
    /\ gui # NoObject
    /\ FramesSeen(gui) < DATA_BUFFER_SIZE + MaxBufferFrames
    /\ \E s \in BufferSamples :
          OnData(Frame(FramesSeen(gui) + 1, s.force,
                       RAdd(gui.test_data[Len(gui.test_data)].extension,
                            s.d_ext)))

NextBuffer == BufferData

SpecBuffer == InitBuffer /\ [][NextBuffer]_vars

\* C29: after every _on_data the buffer holds at most DATA_BUFFER_SIZE
\* samples; when the append exceeds the limit the buffer keeps its first 100
\* samples and every second later one in arrival order; the newest sample
\* is always the last element.
C29_Decimation ==
    [][(op' = "_on_data") =>
          LET old == gui.test_data
              new == gui'.test_data
              n == Len(old) + 1
          IN  /\ Len(new) <= DATA_BUFFER_SIZE
              /\ FramesSeen(gui') = FramesSeen(gui) + 1
              /\ IF n > DATA_BUFFER_SIZE
                 THEN /\ Len(new) = 100 + ((n - 100 + 1) \div 2)
                      /\ \A i \in 1..100 : new[i] = old[i]
                      /\ \A i \in 101..(Len(new) - 1) :
                            new[i] = old[100 + 2 * (i - 100) - 1]
                 ELSE /\ Len(new) = n
                      /\ \A i \in 1..Len(old) : new[i] = old[i]]_vars

\* the buffer has just been decimated, and the energy integrated over what
\* is left of it differs from the energy accumulated sample by sample
C29_Witness ==
    /\ op = "_on_data"
    /\ FramesSeen(gui) = DATA_BUFFER_SIZE + 1
    /\ Len(gui.test_data) < FramesSeen(gui)
    /\ gui.cumulative_energy # Zero
    /\ LET t == LastK(gui.test_data, MaxBufferFrames + 1)
       IN  /\ \A i \in 1..(Len(gui.test_data) - Len(t)) :
                 gui.test_data[i].extension = Zero
           /\ t[1].extension = Zero
           /\ RDiv(Trapz([i \in 1..Len(t) |-> t[i].force],
                         [i \in 1..Len(t) |-> t[i].extension]), R(1000))
                 # gui.cumulative_energy

\* C21: once Stop has been pressed, no sample is appended to the test
\* buffer and the cumulative energy does not change until the next Start,
\* whatever DATA frames arrive.
C21_FrozenAfterStop ==
    [][(StopsSinceStart(serial.sent) > 0 /\ op' # "_start_test") =>
          /\ gui'.test_data = gui.test_data
          /\ gui'.cumulative_energy = gui.cumulative_energy]_vars

(***************************************************************************)
(* The mock controller of the PyQt application, gui/mock_serial.py.  In    *)
(* SpecMock the variable serial holds the MockSerial port.  A response is  *)
(* kept as its first word.                                                 *)
(***************************************************************************)
\* MockSerial(): the simulated state after construction; timers counts the
\* threading.Timer objects started by HOME that have not fired yet
MockSerial ==
    [state |-> "IDLE", force |-> Zero, position |-> Zero,
     is_running |-> FALSE, is_paused |-> FALSE,
     speed |-> One, max_force |-> R(450), max_extension |-> R(100),
     specimen_stiffness |-> R(50), yield_force |-> R(300),
     break_force |-> R(400), read_buffer |-> <<>>, timers |-> 0]

\* MockSerial._queue_response(response)
QueueResponse(m, response) == [m EXCEPT !.read_buffer = Append(@, response)]

\* the commands sent to the mock; SPEED carries its argument
MockCommands ==
    {<<"START">>, <<"STOP">>, <<"PAUSE">>, <<"RESUME">>, <<"ESTOP">>,
     <<"HOME">>, <<"TARE">>, <<"RESET">>, <<"SPEED", R(400)>>, <<"SPEED">>}

\* MockSerial._process_command(command): the mock afterwards
ProcessCommand(m, parts) ==
    LET cmd == parts[1] IN
    CASE cmd = "START" ->
           IF m.state \in {"IDLE", "READY"}
           THEN QueueResponse([m EXCEPT !.state = "RUNNING",
                                        !.is_running = TRUE,
                                        !.is_paused = FALSE,
                                        !.position = Zero,
                                        !.force = Zero], "OK")
           ELSE QueueResponse(m, "ERROR")
      [] cmd = "STOP" ->
           QueueResponse([m EXCEPT !.state = "READY", !.is_running = FALSE,
                                   !.is_paused = FALSE], "OK")
      [] cmd = "PAUSE" ->
           IF m.is_running /\ ~m.is_paused
           THEN QueueResponse([m EXCEPT !.state = "PAUSED",
                                        !.is_paused = TRUE], "OK")
           ELSE QueueResponse(m, "ERROR")
      [] cmd = "RESUME" ->
           IF m.is_paused
           THEN QueueResponse([m EXCEPT !.state = "RUNNING",
                                        !.is_paused = FALSE], "OK")
           ELSE QueueResponse(m, "ERROR")
      [] cmd = "ESTOP" ->
           QueueResponse([m EXCEPT !.state = "EMERGENCY",
                                   !.is_running = FALSE,
                                   !.is_paused = FALSE], "OK")
      [] cmd = "HOME" ->
           QueueResponse([m EXCEPT !.state = "HOMING", !.timers = @ + 1], "OK")
      [] cmd = "TARE" ->
           QueueResponse([m EXCEPT !.force = Zero], "OK")
      [] cmd = "SPEED" ->
           IF Len(parts) > 1
           THEN QueueResponse([m EXCEPT !.speed = parts[2]], "OK")
           ELSE QueueResponse(m, "ERROR")
      [] cmd = "RESET" ->
           QueueResponse([m EXCEPT !.state = "IDLE", !.is_running = FALSE,
                                   !.is_paused = FALSE, !.position = Zero,
                                   !.force = Zero], "OK")
      [] OTHER -> QueueResponse(m, "ERROR")

\* MockSerial._complete_homing()
CompleteHoming(m) ==
    QueueResponse([m EXCEPT !.state = "READY", !.position = Zero,
                            !.timers = @ - 1], "OK")

RMax(a, b) == IF RLt(a, b) THEN b ELSE a

\* the test is ended by the simulation: state READY, not running, one OK
EndTest(m) ==
    QueueResponse([m EXCEPT !.state = "READY", !.is_running = FALSE], "OK")

\* the force of the simulated specimen at the new position; noise stands
\* for the random and sine terms, as a fraction in -1..1 of their range
SimulatedForce(m, position, noise) ==
    IF RLt(position, R(5)) THEN RAdd(One, noise)
    ELSE IF RLt(position, R(30))
    THEN RAdd(RDiv(RMul(RSub(position, R(5)), m.specimen_stiffness), R(5)),
              RMul(R(2), noise))
    ELSE IF RLt(position, R(50))
    THEN RAdd(RAdd(m.yield_force,
                   RMul(RDiv(RSub(position, R(30)), R(20)),
                        RSub(m.break_force, m.yield_force))),
              RMul(R(15), noise))
    ELSE IF RGt(position, R(60)) THEN RMax(Zero, RSub(m.force, R(50)))
    ELSE RAdd(RSub(m.break_force,
                   RMul(RDiv(RSub(position, R(50)), R(10)), R(50))),
              RMul(R(10), noise))

\* one iteration of MockSerial._simulation_loop past the sleep
SimulationStep(m, noise, send) ==
    IF m.is_running /\ ~m.is_paused
    THEN LET position == RAdd(m.position, RMul(m.speed, Frac(1, 20)))
             force == SimulatedForce(m, position, noise)
             m1 == [m EXCEPT !.position = position, !.force = force]
             m2 == IF RGe(position, R(50)) /\ RGt(position, R(60))
                      /\ RLt(force, R(10))
                   THEN EndTest(m1) ELSE m1
             m3 == [m2 EXCEPT !.force = RMax(Zero, @)]
             m4 == IF RGe(m3.force, m3.max_force) THEN EndTest(m3) ELSE m3
             m5 == IF RGe(m4.position, m4.max_extension) THEN EndTest(m4)
                   ELSE m4
         IN  IF send THEN QueueResponse(m5, "DATA") ELSE m5
    ELSE IF m.state \in {"IDLE", "READY"}
    THEN [m EXCEPT !.force = RMul(Frac(1, 2), noise)]
    ELSE m

(***************************************************************************)
(* SpecMock: the mock controller under commands, simulation iterations,    *)
(* homing timers and a reader that empties the response queue              *)
(***************************************************************************)
\* responses left unread when the next command or iteration runs
MaxBacklog == 0
\* HOME timers pending at a time
MaxTimers == 1
\* iterations followed at the default speed of 1 mm/s
MaxSlowSteps == 2

Noises == {R(-1), One}

InitMock ==
    /\ Fresh /\ pending = <<>> /\ arg = None
    /\ config = NoObject /\ dialog = NoObject /\ gui = NoObject
    /\ dpg = NoObject
    /\ serial = MockSerial

\* MockSerial.write(data)
MockWrite ==
    /\ Len(serial.read_buffer) <= MaxBacklog
    /\ \E parts \in MockCommands :
          /\ parts[1] = "HOME" => serial.timers < MaxTimers
          /\ serial' = ProcessCommand(serial, parts)
          /\ arg' = parts
    /\ op' = "_process_command"
    /\ raised' = None
    /\ UNCHANGED <<analyzer, results, ret, pending, config, dialog, gui, dpg>>

\* a timer started by HOME fires
MockHomed ==
    /\ serial.timers > 0
    /\ Len(serial.read_buffer) <= MaxBacklog
    /\ serial' = CompleteHoming(serial)
    /\ op' = "_complete_homing"
    /\ raised' = None
    /\ UNCHANGED <<analyzer, results, ret, pending, arg, config, dialog, gui,
                   dpg>>

\* the simulation thread runs one iteration
MockSimulate ==
    /\ Len(serial.read_buffer) <= MaxBacklog
    /\ serial.speed = One =>
          RLt(serial.position, Frac(MaxSlowSteps, 20))
    /\ \E noise \in Noises, send \in BOOLEAN :
          serial' = SimulationStep(serial, noise, send)
    /\ op' = "_simulation_loop"
    /\ raised' = None
    /\ UNCHANGED <<analyzer, results, ret, pending, arg, config, dialog, gui,
                   dpg>>

\* MockSerial.readline()
MockReadline ==
    /\ serial.read_buffer # <<>>
    /\ ret' = Head(serial.read_buffer)
    /\ serial' = [serial EXCEPT !.read_buffer = Tail(@)]
    /\ op' = "readline"
    /\ raised' = None
    /\ UNCHANGED <<analyzer, results, pending, arg, config, dialog, gui, dpg>>

NextMock == MockWrite \/ MockHomed \/ MockSimulate \/ MockReadline

SpecMock == InitMock /\ [][NextMock]_vars

\* C30: _is_paused implies _is_running, _is_running holds only in the
\* states RUNNING and PAUSED, and START is accepted from IDLE or READY only
\* and otherwise answers ERROR and leaves state, position and force as they
\* were.
C30_MockConsistency ==
    [][/\ serial'.is_paused => serial'.is_running
       /\ serial'.is_running => serial'.state \in {"RUNNING", "PAUSED"}
       /\ (op' = "_process_command" /\ arg'[1] = "START") =>
             LET answer == serial'.read_buffer[Len(serial'.read_buffer)]
             IN  IF serial.state \in {"IDLE", "READY"}
                 THEN answer = "OK" /\ serial'.state = "RUNNING"
                 ELSE /\ answer = "ERROR"
                      /\ serial'.state = serial.state
                      /\ serial'.position = serial.position
                      /\ serial'.force = serial.force]_vars

(***************************************************************************)
(* SpecDpg: the DearPyGui application in test mode, with the               *)
(* MockSerialHandler of gui_dpg/mock_serial.py in `serial`.  Every         *)
(* _run_test thread the handler started and that has not returned is an    *)
(* element of serial.threads; one step of a thread is one pass of its      *)
(* while loop.                                                             *)
(***************************************************************************)

\* MockSerialHandler.__init__
MockSerialHandler ==
    [running |-> FALSE, connected |-> FALSE, state |-> "IDLE",
     force |-> Zero, position |-> Zero, is_testing |-> FALSE,
     is_paused |-> FALSE, speed |-> One, max_force |-> R(450),
     max_extension |-> R(100), gauge_length |-> R(50),
     cross_section |-> Frac(1257, 100), threads |-> <<>>]

\* the global state of gui_dpg/app.py: AppState() with its connection fields
DpgState == AppState @@ [connected |-> FALSE, test_stage |-> "IDLE"]

\* the values of the speed input that the operator sets (its maximum)
SpeedInputs == {R(500)}

MaxThreads == 2

MaxIterations == 5

\* random.gauss(0, 0.5)
GaussNoises == {Zero}

\* break_extension of _run_test, scaled when the travel is shorter than it
BreakExtension(max_extension) ==
    IF RLt(max_extension, R(25)) THEN RMul(max_extension, Frac(95, 100))
    ELSE R(25)

\* the force of the material model of _run_test at an extension
MaterialForce(extension, max_extension) ==
    LET scaled == RLt(max_extension, R(25))
        scale == RDiv(max_extension, R(25))
        yield_extension == IF scaled THEN RMul(R(2), scale) ELSE R(2)
        ultimate_extension == IF scaled THEN RMul(R(15), scale) ELSE R(15)
        break_extension == BreakExtension(max_extension)
        yield_force == R(50)
        ultimate_force == R(80)
    IN  IF RLt(extension, yield_extension)
        THEN RMul(RDiv(extension, yield_extension), yield_force)
        ELSE IF RLt(extension, ultimate_extension)
        THEN RAdd(yield_force,
                  RMul(RDiv(RSub(extension, yield_extension),
                            RSub(ultimate_extension, yield_extension)),
                       RSub(ultimate_force, yield_force)))
        ELSE IF RLt(extension, break_extension)
        THEN RMul(ultimate_force,
                  RSub(One,
                       RMul(Frac(6, 10),
                            RDiv(RSub(extension, ultimate_extension),
                                 RSub(break_extension, ultimate_extension)))))
        ELSE Zero

\* one pass of the while loop of _run_test that is not paused: the handler
\* after it
RunTestPass(h, noise) ==
    LET extension == RAdd(h.position, RMul(h.speed, Frac(1, 100)))
        broken == RGe(extension, BreakExtension(h.max_extension))
        force == RMax(Zero, RAdd(MaterialForce(extension, h.max_extension),
                                 noise))
        ended == \/ broken \/ RGt(force, h.max_force)
                 \/ RGt(extension, h.max_extension)
    IN  [h EXCEPT !.position = extension,
                  !.force = force,
                  !.is_testing = IF ended THEN FALSE ELSE @,
                  !.state = IF ended THEN "COMPLETE" ELSE @]

\* the DataPoint that pass number n of a thread hands to on_data; n stands
\* for the time elapsed since the thread started
RunTestData(h, n) ==
    [timestamp |-> R(10 * n), force |-> h.force, extension |-> h.position,
     stress |-> RDiv(h.force, h.cross_section),
     strain |-> RDiv(h.position, h.gauge_length)]

RemoveAt(s, i) == SubSeq(s, 1, i - 1) \o SubSeq(s, i + 1, Len(s))

InitDpg ==
    /\ Fresh /\ pending = <<>> /\ arg = None
    /\ config = NoObject /\ dialog = NoObject /\ gui = NoObject
    /\ dpg = DpgState
    /\ serial = MockSerialHandler

\* toggle_connection() while disconnected: MockSerialHandler.connect and
\* the on_connected callback
DpgConnect ==
    /\ ~dpg.connected
    /\ serial' = [serial EXCEPT !.connected = TRUE, !.state = "IDLE",
                                !.running = TRUE]
    /\ dpg' = [dpg EXCEPT !.connected = TRUE, !.test_stage = "IDLE"]
    /\ op' = "toggle_connection"
    /\ raised' = None
    /\ UNCHANGED <<analyzer, results, ret, pending, arg, config, dialog, gui>>

\* MockSerialHandler.start_test()
HandlerStartTest(h) ==
    IF ~h.connected \/ h.is_testing THEN h
    ELSE [h EXCEPT !.is_testing = TRUE, !.is_paused = FALSE,
                   !.state = "RUNNING", !.position = Zero, !.force = Zero,
                   !.threads = Append(@, [passes |-> 0])]

\* start_test() of gui_dpg/app.py
DpgStartTest ==
    /\ dpg.connected
    /\ Len(serial.threads) < MaxThreads
    /\ \E speed \in SpeedInputs :
          serial' = HandlerStartTest([serial EXCEPT !.speed = speed])
    /\ dpg' = [dpg EXCEPT !.times = <<>>, !.forces = <<>>,
                          !.extensions = <<>>, !.stresses = <<>>,
                          !.strains = <<>>, !.true_stresses = <<>>,
                          !.true_strains = <<>>, !.max_force = Zero,
                          !.max_stress = Zero, !.energy = Zero,
                          !.data_points = 0, !.test_stage = "TESTING"]
    /\ op' = "start_test"
    /\ raised' = None
    /\ UNCHANGED <<analyzer, results, ret, pending, arg, config, dialog, gui>>

\* stop_test() of gui_dpg/app.py: MockSerialHandler.stop_test()
DpgStopTest ==
    /\ serial' = [serial EXCEPT !.is_testing = FALSE, !.state = "IDLE"]
    /\ op' = "stop_test"
    /\ raised' = None
    /\ UNCHANGED <<analyzer, results, ret, pending, arg, config, dialog, gui,
                   dpg>>

\* pause_test() of gui_dpg/app.py
DpgPauseTest ==
    /\ serial' = [serial EXCEPT !.is_paused = TRUE, !.state = "PAUSED"]
    /\ op' = "pause_test"
    /\ raised' = None
    /\ UNCHANGED <<analyzer, results, ret, pending, arg, config, dialog, gui,
                   dpg>>

\* resume_test() of gui_dpg/app.py
DpgResumeTest ==
    /\ serial' = [serial EXCEPT !.is_paused = FALSE, !.state = "RUNNING"]
    /\ op' = "resume_test"
    /\ raised' = None
    /\ UNCHANGED <<analyzer, results, ret, pending, arg, config, dialog, gui,
                   dpg>>

\* one pass of the loop of a _run_test thread; whether the pass samples
\* depends on the clock.  A thread that finds the loop condition false returns.
RunTest ==
    /\ \E i \in 1..Len(serial.threads) :
          IF serial.is_testing /\ serial.running
          THEN /\ ~serial.is_paused
               /\ serial.threads[i].passes < MaxIterations
               /\ \E noise \in GaussNoises, should_sample \in BOOLEAN :
                     LET n == serial.threads[i].passes + 1
                         h == RunTestPass(serial, noise)
                     IN  /\ serial' = [h EXCEPT !.threads[i].passes = n]
                         /\ dpg' = IF should_sample
                                   THEN DpgAfterData(dpg, RunTestData(h, n))
                                   ELSE dpg
          ELSE /\ serial' = [serial EXCEPT !.threads = RemoveAt(@, i)]
               /\ dpg' = dpg
    /\ op' = "_run_test"
    /\ raised' = None
    /\ UNCHANGED <<analyzer, results, ret, pending, arg, config, dialog, gui>>

NextDpg ==
    \/ DpgConnect \/ DpgStartTest \/ DpgStopTest \/ DpgPauseTest
    \/ DpgResumeTest \/ RunTest

SpecDpg == InitDpg /\ [][NextDpg]_vars

\* C24: a Start request made while a test is running leaves the buffered
\* samples, the maxima and the energy of the running test as they were.
C24_NoRewind ==
    [][(op' = "start_test" /\ serial.is_testing) =>
          /\ dpg'.times = dpg.times /\ dpg'.forces = dpg.forces
          /\ dpg'.extensions = dpg.extensions
          /\ dpg'.stresses = dpg.stresses /\ dpg'.strains = dpg.strains
          /\ dpg'.max_force = dpg.max_force
          /\ dpg'.max_stress = dpg.max_stress
          /\ dpg'.energy = dpg.energy]_vars

\* C23: at most one _run_test thread of the handler is alive while the
\* condition of its loop holds, that is, at most one thread goes on
\* delivering samples through on_data.
C23_SingleProducer ==
    (serial.is_testing /\ serial.running) => Len(serial.threads) <= 1

(***************************************************************************)
(* SpecSnapshot: on_data of gui_dpg/app.py on the reader thread against    *)
(* show_results and export_data on the thread of the user interface.  The  *)
(* threads interleave between statements: serial.pc is the number of       *)
(* statements of on_data that have run for the frame at the head of        *)
(* `pending`, and `arg` is the TestData under construction, with the       *)
(* number of its lists that have been copied.                              *)
(***************************************************************************)

MaxSnapshotFrames == 2

\* the reader thread, SerialHandler._read_loop, between two frames
ReaderThread == [running |-> TRUE, pc |-> 0]

\* the statements of on_data up to the append to state.strains
OnDataAppends == 5

\* the lists that the TestData constructor copies, in the order of its
\* keyword arguments
TestDataFields ==
    <<"times", "forces", "extensions", "stresses", "strains",
      "true_stresses", "true_strains">>

\* AppState before the appends of on_data for the last frame
BeforeAppends(st) ==
    [st EXCEPT !.times = SubSeq(@, 1, Len(@) - 1),
               !.forces = SubSeq(@, 1, Len(@) - 1),
               !.extensions = SubSeq(@, 1, Len(@) - 1),
               !.stresses = SubSeq(@, 1, Len(@) - 1),
               !.strains = SubSeq(@, 1, Len(@) - 1)]

\* AppState after statement k of on_data(dp), the statements before it
\* having run: five appends, then the rest of the callback
OnDataStatement(st, dp, k) ==
    CASE k = 1 -> [st EXCEPT !.times = Append(@, RDiv(dp.timestamp, R(1000)))]
      [] k = 2 -> [st EXCEPT !.forces = Append(@, dp.force)]
      [] k = 3 -> [st EXCEPT !.extensions = Append(@, dp.extension)]
      [] k = 4 -> [st EXCEPT !.stresses = Append(@, dp.stress)]
      [] k = 5 -> [st EXCEPT !.strains = Append(@, dp.strain)]
      [] OTHER -> DpgAfterData(BeforeAppends(st), dp)

\* TestData(times=list(state.times), ...) with no list copied yet
EmptyTestData(caller) ==
    [caller |-> caller, copied |-> 0, times |-> <<>>, forces |-> <<>>,
     extensions |-> <<>>, stresses |-> <<>>, strains |-> <<>>,
     true_stresses |-> <<>>, true_strains |-> <<>>]

InitSnapshot ==
    /\ Fresh
    /\ config = NoObject /\ dialog = NoObject /\ gui = NoObject
    /\ dpg = [DpgState EXCEPT !.connected = TRUE]
    /\ serial = ReaderThread
    /\ arg = NoObject
    /\ \E script \in [1..MaxSnapshotFrames -> BufferSamples] :
          pending = [i \in 1..MaxSnapshotFrames |->
                       Frame(i, script[i].force,
                             RMul(R(i), RAdd(One, script[i].d_ext)))]

\* the reader thread runs the next statement of on_data
OnDataStep ==
    /\ pending # <<>>
    /\ dpg' = OnDataStatement(dpg, Head(pending), serial.pc + 1)
    /\ IF serial.pc < OnDataAppends
       THEN serial' = [serial EXCEPT !.pc = @ + 1] /\ pending' = pending
       ELSE serial' = [serial EXCEPT !.pc = 0] /\ pending' = Tail(pending)
    /\ op' = "on_data"
    /\ raised' = None
    /\ UNCHANGED <<analyzer, results, ret, arg, config, dialog, gui>>

\* show_results() or export_data() passes its test 'if not state.forces'
SnapshotBegin ==
    /\ IF arg = NoObject THEN TRUE ELSE arg.copied = Len(TestDataFields)
    /\ dpg.forces # <<>>
    /\ \E caller \in {"show_results", "export_data"} :
          /\ arg' = EmptyTestData(caller)
          /\ op' = caller
    /\ raised' = None
    /\ UNCHANGED <<analyzer, results, ret, pending, config, dialog, gui, dpg,
                   serial>>

\* the next list(state.<field>) of the TestData constructor; after the
\* last one the TestData goes to ResultsAnalyzer.analyze
SnapshotCopy ==
    /\ arg # NoObject
    /\ arg.copied < Len(TestDataFields)
    /\ LET field == TestDataFields[arg.copied + 1]
       IN  arg' = [arg EXCEPT ![field] = dpg[field], !.copied = @ + 1]
    /\ op' = IF arg.copied + 1 = Len(TestDataFields) THEN "analyze"
             ELSE arg.caller
    /\ raised' = None
    /\ UNCHANGED <<analyzer, results, ret, pending, config, dialog, gui, dpg,
                   serial>>

NextSnapshot == OnDataStep \/ SnapshotBegin \/ SnapshotCopy

SpecSnapshot == InitSnapshot /\ [][NextSnapshot]_vars

IsPrefix(s, t) == Len(s) <= Len(t) /\ s = SubSeq(t, 1, Len(s))

\* C22: the TestData handed to ResultsAnalyzer.analyze has times, forces,
\* extensions, stresses and strains of one length, each a prefix of the
\* recorded list, and shares no list with the state that on_data appends to.
C22_ConsistentSnapshot ==
    (arg # NoObject /\ arg.copied = Len(TestDataFields)) =>
        /\ Len(arg.times) = Len(arg.forces)
        /\ Len(arg.forces) = Len(arg.extensions)
        /\ Len(arg.extensions) = Len(arg.stresses)
        /\ Len(arg.stresses) = Len(arg.strains)
        /\ IsPrefix(arg.times, dpg.times)
        /\ IsPrefix(arg.forces, dpg.forces)
        /\ IsPrefix(arg.extensions, dpg.extensions)
        /\ IsPrefix(arg.stresses, dpg.stresses)
        /\ IsPrefix(arg.strains, dpg.strains)

====
